---- MODULE Spec2Model ----
(***************************************************************************)
(* A model of TestTask::VFS (src/include/VFS.h), the page-addressed        *)
(* virtual file system over a fixed set of physical files, together with   *)
(* PhysicalFile (src/include/PhysicalFile.h) and File (src/include/File.h). *)
(*                                                                         *)
(* Physical files are modelled byte for byte.  The instantiation that is   *)
(* modelled is VFS<max_files, 16> on a target whose size_t is 16 bits wide *)
(* (st_size = 2): every layout formula of the source is kept, only the     *)
(* template argument page_size and the width of size_t are small.          *)
(* Offsets are 0-based as in the source; f[o + 1] is the byte at offset o. *)
(***************************************************************************)
EXTENDS Integers, Sequences, FiniteSets, TLC

VARIABLES
    pfiles,         \* physical_files: backing file id -> its bytes (file_size = Len)
    virtual_files,  \* virtual_files: path -> File object
    virtual_dirs,   \* virtual_dirs: path -> Dir
    freed,          \* File objects erased while a caller still holds a pointer to them
    handle,         \* per caller: the File* it holds (NoHandle when none)
    pc,             \* per caller: position inside a call that is not atomic
    scope,          \* which of the bounded families of calls this behaviour explores
    written,        \* history: the successful Writes, with the bytes written, in call order
    last,           \* history: the call that produced the current state and its result
    editing_files_mutex,  \* the caller that holds editing_files_mutex, 0 when free
    io_mutexes,     \* per physical file: the caller that holds its recursive mutex, 0 when free
    frame           \* per caller: the locals of the call it is in

vars == <<pfiles, virtual_files, virtual_dirs, freed, handle, pc, scope, written, last,
          editing_files_mutex, io_mutexes, frame>>

\* the mutexes of VFS and the locals of the calls that wait for them
lockvars == <<editing_files_mutex, io_mutexes, frame>>

----------------------------------------------------------------------------
(* Parameters of the modelled build *)

page_size == 16
st_size == 2
start == st_size
SizeMod == 65536
npos == SizeMod - 1

dir == 7
file == 112

Slash == 47
vRoot == <<Slash>>

(* Bounds of the exploration.  A behaviour explores one of four families of  *)
(* calls: in scope "data" two files of one directory tree are written up to *)
(* MaxData bytes in all; in scope "paths" every name is used and at most    *)
(* MaxDataWide bytes are written; in scope "links" one file is written up  *)
(* to MaxDataLinks bytes of binary data; in scope "shadow" a path is made a *)
(* file and then the directory of another file, with MaxDataWide bytes.     *)
MaxPages == 8
MaxData == 18
MaxDataWide == 7
MaxDataLinks == 30

PFiles == {1, 2}
Threads == {1, 2}
Scopes == {"data", "paths", "links", "shadow"}

\* the names the callers pass
NameAF == <<47, 97, 47, 102>>             \* "/a/f"
NameABF == <<47, 97, 47, 98, 47, 102>>    \* "/a/b/f"
NameCF == <<47, 99, 47, 102>>             \* "/c/f"
NameAB == <<47, 97, 47, 98>>              \* "/a/b", a file or the directory of "/a/b/f"
NameF == <<102>>                          \* "f", relative and in the root

CreateNames(sc) ==
    IF sc = "links" THEN {NameAF}
    ELSE IF sc = "shadow" THEN {NameAB, NameABF}
    ELSE IF sc = "data" THEN {NameAF, NameABF} ELSE {NameAF, NameABF, NameCF, NameF}
OpenNames(sc) ==
    IF sc = "links" THEN {NameAF}
    ELSE IF sc = "shadow" THEN {NameAB, NameABF}
    ELSE IF sc = "data" THEN {NameAF, NameABF} ELSE {NameAF, NameABF, NameCF, NameF, NameAB}
Names == {NameAF, NameABF, NameCF, NameF, NameAB}

\* the buffers the callers write: bytes that tell their position
Pattern(n) == [i \in 1..n |-> 16 + i]
WriteLens == {5, 7, 13}
DataSet == { Pattern(n) : n \in WriteLens }
\* binary data: bytes 0 and 1 in turn, which read as a word give a small number
Binary(n) == [i \in 1..n |-> (i + 1) % 2]
LinkLens == {13, 17}
\* the buffers of a scope, the empty one (len = 0) among them
Buffers(sc) == IF sc = "links" THEN { Binary(n) : n \in LinkLens } ELSE DataSet \cup {<<>>}
ReadLens == {0, 5, 13, 30}

\* a File*: the key of the File in virtual_files and the identity of the object
NoPtr == [name |-> <<>>, id |-> 0]
\* what a caller holds: a File* and the call that returned it
NoHandle == [name |-> <<>>, id |-> 0, by |-> "none"]
Held(ptr, by) == IF ptr = NoPtr THEN NoHandle ELSE [name |-> ptr.name, id |-> ptr.id, by |-> by]

----------------------------------------------------------------------------
(* Unsigned arithmetic of size_t, little-endian words *)

Min(a, b) == IF a <= b THEN a ELSE b

Wrap(x) == x % SizeMod

SetMin(S) == CHOOSE x \in S : \A y \in S : x <= y

Zeroes(n) == [i \in 1..n |-> 0]

Enc(v) == [i \in 1..st_size |-> (Wrap(v) \div (256 ^ (i - 1))) % 256]

RECURSIVE Dec(_)
Dec(b) == IF b = <<>> THEN 0 ELSE Head(b) + 256 * Dec(Tail(b))

\* n bytes of a page buffer from offset pos; what lies past the buffer reads as 0
Peek(page, pos, n) == [i \in 1..n |-> IF pos + i <= Len(page) THEN page[pos + i] ELSE 0]

----------------------------------------------------------------------------
(* fs::path on the virtual side *)

has_root_directory(s) == Len(s) > 0 /\ s[1] = Slash

LastSlash(s) == LET idx == {i \in 1..Len(s) : s[i] = Slash}
                IN  IF idx = {} THEN 0 ELSE CHOOSE i \in idx : \A j \in idx : j <= i

parent_path(s) == LET i == LastSlash(s)
                  IN  IF i = 0 THEN <<>>
                      ELSE IF i = 1 THEN vRoot
                      ELSE SubSeq(s, 1, i - 1)

Normalize(name) == IF has_root_directory(name) THEN name ELSE vRoot \o name

----------------------------------------------------------------------------
(* PhysicalFile *)

GetSize(f) == Len(f)

PWrite(f, buf, pos) ==
    IF Len(buf) = 0 \/ pos > GetSize(f)
    THEN [f |-> f, n |-> 0]
    ELSE [f |-> SubSeq(f, 1, pos) \o buf \o SubSeq(f, pos + Len(buf) + 1, Len(f)),
          n |-> Len(buf)]

PAppend(f, buf) == PWrite(f, buf, GetSize(f))

PRead(f, length, pos) ==
    IF length = 0 \/ pos >= GetSize(f)
    THEN <<>>
    ELSE SubSeq(f, pos + 1, pos + Min(length, GetSize(f) - pos))

\* a read into an existing buffer: the bytes not read keep their old value
ReadInto(buf, f, pos) == LET r == PRead(f, page_size, pos)
                         IN  r \o SubSeq(buf, Len(r) + 1, page_size)

----------------------------------------------------------------------------
(* Page codec *)

GetNextPage(page) == Dec(SubSeq(page, page_size - st_size + 1, page_size))

SetNextPage(f, page, next_page) ==
    PWrite(f, Enc(next_page), Wrap((page + 1) * page_size - st_size + start)).f

GetFileLength(page) == Dec(SubSeq(page, 1, st_size))

SetFileLength(f, page, len) == PWrite(f, Enc(len), Wrap((page * page_size) + start)).f

NoInfo == [type |-> 0, name |-> <<>>, page |-> 0]

\* string_view::substr throws when it starts past the end of the page; a read
\* that starts inside the page and runs past its end takes the bytes that follow
\* the buffer in memory, zero here (ReadFileInfoOutside tells when that happens)
ReadFileInfo(page, pos) ==
    LET type == Peek(page, pos, 1)[1]
        name_size == Dec(Peek(page, pos + 1, st_size))
        name == SubSeq(page, pos + 1 + st_size + 1,
                       Min(pos + 1 + st_size + name_size, page_size))
        page_pos == Wrap(pos + 1 + st_size + name_size)
        page_num == Dec(Peek(page, page_pos, st_size))
    IN  IF pos > page_size
        THEN [exc |-> "out_of_range", info |-> NoInfo, pos |-> 0]
        ELSE IF type = 0
        THEN [exc |-> "ok", info |-> NoInfo, pos |-> 0]
        ELSE IF pos + 1 + st_size > page_size \/ page_pos > page_size
        THEN [exc |-> "out_of_range", info |-> NoInfo, pos |-> 0]
        ELSE [exc |-> "ok", info |-> [type |-> type, name |-> name, page |-> page_num],
              pos |-> Wrap(page_pos + st_size)]

\* ReadFileInfo dereferences bytes that lie outside the page
ReadFileInfoOutside(page, pos) ==
    LET page_pos == Wrap(pos + 1 + st_size + Dec(Peek(page, pos + 1, st_size)))
    IN  \/ pos = page_size
        \/ /\ pos < page_size
           /\ Peek(page, pos, 1)[1] # 0
           /\ \/ pos + 1 + st_size > page_size
              \/ page_pos <= page_size /\ page_pos + st_size > page_size

FindFileInPage(page, file_name, type) ==
    LET query == <<type>> \o Enc(Len(file_name)) \o file_name
        hits == {i \in 0..(page_size - Len(query)) :
                    SubSeq(page, i + 1, i + Len(query)) = query}
    IN  IF hits = {} THEN npos ELSE SetMin(hits)

RECURSIVE FindPageEndFrom(_, _)
FindPageEndFrom(page, pos) ==
    IF Peek(page, pos, 1)[1] # 0 /\ pos < page_size
    THEN FindPageEndFrom(page,
                         Wrap(pos + 1 + Dec(Peek(page, pos + 1, st_size)) + st_size + st_size))
    ELSE pos

FindPageEnd(page) == Min(FindPageEndFrom(page, 0), page_size - st_size)

\* the loop of FindPageEnd tests page[pos] before pos < page_size and reads name_size
\* wherever pos + 1 is: TRUE when one of these reads lies outside the page
RECURSIVE FindPageEndOutside(_, _)
FindPageEndOutside(page, pos) ==
    IF pos >= page_size
    THEN TRUE
    ELSE IF Peek(page, pos, 1)[1] = 0
    THEN FALSE
    ELSE \/ pos + 1 + st_size > page_size
         \/ FindPageEndOutside(page,
                Wrap(pos + 1 + Dec(Peek(page, pos + 1, st_size)) + st_size + st_size))

----------------------------------------------------------------------------
(* Appending pages and writing through WriteToFile *)

CreateEmptyPage(f) == PAppend(f, Zeroes(page_size)).f

\* the loop of WriteToFile: link the page to the index the end of file falls in,
\* append the next piece, until the whole buffer is written
RECURSIVE WriteCarry(_, _, _, _)
WriteCarry(f, buf, page, written_bytes) ==
    IF Len(buf) - written_bytes = 0
    THEN [f |-> f, n |-> written_bytes]
    ELSE LET f1 == SetNextPage(f, page, (GetSize(f) - st_size) \div page_size)
             w == PAppend(f1, SubSeq(buf, written_bytes + 1,
                              written_bytes + Min(page_size - st_size, Len(buf) - written_bytes)))
         IN  WriteCarry(w.f, buf, page, written_bytes + w.n)

WriteToFile(f, buf, page, pos, carry) ==
    LET len == Len(buf)
    IN  IF len <= Wrap(Wrap(page_size - pos) - st_size)
        THEN PWrite(f, buf, Wrap(page * page_size + pos + start))
        ELSE LET w0 == IF carry
                       THEN PWrite(f, SubSeq(buf, 1, page_size - pos - st_size),
                                   Wrap(page * page_size + pos + start))
                       ELSE [f |-> f, n |-> 0]
                 w1 == WriteCarry(w0.f, buf, page, w0.n)
             IN  [f |-> PAppend(w1.f, Zeroes(page_size - (w1.n % page_size))).f, n |-> w1.n]

IncrementNumOfFiles(f) ==
    PWrite(f, Enc(Dec(PRead(f, st_size, 0)) + 1), 0).f

----------------------------------------------------------------------------
(* The two indexes *)

NewFile(path, name, page, id) ==
    [p_file |-> path, name |-> name, page |-> page, data_len |-> 0,
     status |-> "closed", readers |-> 0, id |-> id]

InsertDir(vd, name, page, path) == vd @@ (name :> [p_file |-> path, page |-> page])

InsertFile(vf, name, page, path, id) == vf @@ (name :> NewFile(path, name, page, id))

\* a variant of FindSmallestPFile that takes the first file of the map, whatever its size
FindFirstPFile(pf) == SetMin(DOMAIN pf)

\* std::min_element over the map, which is ordered by path: the first of the smallest
FindSmallestPFile(pf) ==
    SetMin({i \in DOMAIN pf : \A j \in DOMAIN pf : GetSize(pf[i]) <= GetSize(pf[j])})

----------------------------------------------------------------------------
(* Walking page chains *)

\* CreateFile's walk to the last page of a directory chain; the reads are unchecked,
\* so a (page, buffer) pair that comes back means the loop never ends
RECURSIVE ChainTail(_, _, _, _)
ChainTail(f, page, buf, seen) ==
    LET next_page == GetNextPage(buf)
    IN  IF next_page = 0
        THEN [exc |-> "ok", page |-> page, buf |-> buf]
        ELSE IF <<page, buf>> \in seen
        THEN [exc |-> "hang", page |-> page, buf |-> buf]
        ELSE ChainTail(f, next_page,
                       ReadInto(buf, f, Wrap(page_size * next_page + start)),
                       seen \cup {<<page, buf>>})

\* the do-while of OpenExistingDirectories and OpenExistingFile: look for the
\* record of file_name in the chain that starts at page
RECURSIVE FindInChain(_, _, _, _, _)
FindInChain(f, page, file_name, type, seen) ==
    LET buf == PRead(f, page_size, Wrap(page_size * page + start))
    IN  IF Len(buf) # page_size
        THEN [exc |-> "FileReadingError", found |-> FALSE, info |-> NoInfo, oob |-> FALSE]
        ELSE LET pos == FindFileInPage(buf, file_name, type)
             IN  IF pos # npos
                 THEN [exc |-> ReadFileInfo(buf, pos).exc,
                       found |-> ReadFileInfo(buf, pos).exc = "ok",
                       info |-> ReadFileInfo(buf, pos).info,
                       oob |-> ReadFileInfoOutside(buf, pos)]
                 ELSE IF GetNextPage(buf) = 0
                 THEN [exc |-> "ok", found |-> FALSE, info |-> NoInfo, oob |-> FALSE]
                 ELSE IF GetNextPage(buf) \in seen \cup {page}
                 THEN [exc |-> "hang", found |-> FALSE, info |-> NoInfo, oob |-> FALSE]
                 ELSE FindInChain(f, GetNextPage(buf), file_name, type, seen \cup {page})

----------------------------------------------------------------------------
(* CreateFile: a new page for the entry and its record in the parent's chain *)

CreateFile(pf, vf, vd, parent_dir, file_path, path, type, id) ==
    LET f1 == CreateEmptyPage(pf[path])
        page0 == IF parent_dir = vRoot THEN 0 ELSE vd[parent_dir].page
        tail == ChainTail(f1, page0,
                          ReadInto(Zeroes(page_size), f1, Wrap(page_size * page0 + start)), {})
        next_page == (GetSize(f1) - st_size) \div page_size - 1
        file_info == <<type>> \o Enc(Len(file_path)) \o file_path \o Enc(next_page)
        f2 == WriteToFile(f1, file_info, tail.page, FindPageEnd(tail.buf), FALSE).f
        oob == FindPageEndOutside(tail.buf, 0)
        opf == [pf EXCEPT ![path] = f1]
    IN  IF tail.exc # "ok"
        THEN [exc |-> tail.exc, pf |-> opf, vf |-> vf, vd |-> vd, oob |-> FALSE, opf |-> opf]
        ELSE IF type = file
        THEN [exc |-> "ok",
              pf |-> [pf EXCEPT ![path] = IncrementNumOfFiles(f2)],
              vf |-> InsertFile(vf, file_path, next_page, path, id),
              vd |-> vd, oob |-> oob, opf |-> opf]
        ELSE [exc |-> "ok",
              pf |-> [pf EXCEPT ![path] = f2],
              vf |-> vf,
              vd |-> InsertDir(vd, file_path, next_page, path), oob |-> oob, opf |-> opf]

----------------------------------------------------------------------------
(* OpenExistingDirectories: the stack of directories that are not known, *)
(* shallowest on top, after the ones found on disk were inserted          *)

RECURSIVE ClimbDirs(_, _, _)
ClimbDirs(vd, file_path, dirs) ==
    IF file_path \notin DOMAIN vd /\ file_path # vRoot
    THEN ClimbDirs(vd, parent_path(file_path), <<file_path>> \o dirs)
    ELSE [file_path |-> file_path, dirs |-> dirs]

RECURSIVE DescendDirs(_, _, _, _, _, _)

\* lines 646-664: r is what the do-while found of the directory on top of the stack
DescendFound(pf, vd, path, file_path, dirs, r) ==
    LET here == [exc |-> "ok", dirs |-> dirs, file_path |-> file_path, vd |-> vd,
                 oob |-> r.oob]
    IN  IF r.exc # "ok"
        THEN [here EXCEPT !.exc = r.exc]
        ELSE IF ~r.found
        THEN here
        ELSE IF r.info.name \in DOMAIN vd
        THEN [here EXCEPT !.exc = "DirAlreadyExists"]
        ELSE IF r.info.page = 0
        THEN [here EXCEPT !.vd = InsertDir(vd, r.info.name, r.info.page, path)]
        ELSE [DescendDirs(pf, InsertDir(vd, r.info.name, r.info.page, path), path,
                          Head(dirs), Tail(dirs), r.info.page)
                  EXCEPT !.oob = @ \/ r.oob]

\* the while loop of lines 640-664
DescendDirs(pf, vd, path, file_path, dirs, page) ==
    IF dirs = <<>>
    THEN [exc |-> "ok", dirs |-> dirs, file_path |-> file_path, vd |-> vd, oob |-> FALSE]
    ELSE DescendFound(pf, vd, path, file_path, dirs,
                      FindInChain(pf[path], page, Head(dirs), dir, {}))

\* a variant of OpenExistingDirectories that takes the directories virtual_dirs
\* holds and looks for none in the physical file
OpenKnownDirectories(pf, vd, file_path) ==
    [exc |-> "ok", dirs |-> ClimbDirs(vd, file_path, <<>>).dirs,
     file_path |-> ClimbDirs(vd, file_path, <<>>).file_path, vd |-> vd, oob |-> FALSE]

OpenExistingDirectories(pf, vd, file_path) ==
    LET c == ClimbDirs(vd, file_path, <<>>)
    IN  IF c.dirs # <<>> /\ c.file_path # vRoot
        THEN DescendDirs(pf, vd, vd[c.file_path].p_file, c.file_path, c.dirs,
                         vd[c.file_path].page)
        ELSE [exc |-> "ok", dirs |-> c.dirs, file_path |-> c.file_path, vd |-> vd,
              oob |-> FALSE]

\* OpenExistingFile: the record of the file in its parent's chain
OpenExistingFile(pf, vd, path, file_path) ==
    FindInChain(pf[path], vd[parent_path(file_path)].page, file_path, file, {})

----------------------------------------------------------------------------
(* The public operations, as functions of the state they read *)

Ptr(F) == [name |-> F.name, id |-> F.id]

\* a variant of line 209 that only keeps Open from closed entries, and so lets
\* a reader in beside the writer
OpenBusyClosed(F) == F.status = "closed"

\* line 209: an entry that is not open for reading cannot be opened
OpenBusy(F) == F.status # "openR"

\* a variant of line 269 that only keeps Create from entries held by a writer
CreateBusyWriter(vf, v_file_path) ==
    v_file_path \in DOMAIN vf /\ vf[v_file_path].status = "openW"

\* line 269: any entry of virtual_files keeps Create out
CreateBusy(vf, v_file_path) == v_file_path \in DOMAIN vf

\* a variant of lines 199 and 261 that only keeps the root itself out
InRootItself(v_file_path) == v_file_path = vRoot

\* lines 199 and 261: the root and the names directly in it
InRoot(v_file_path) == v_file_path = vRoot \/ parent_path(v_file_path) = vRoot

\* Open, lines 231-245: r is what OpenExistingFile found in the physical file path
OpenFound(pf, vf, d, path, v_file_path, id, r) ==
    LET vf1 == InsertFile(vf, v_file_path, r.info.page, path, id)
        buf == PRead(pf[path], page_size, Wrap(r.info.page * page_size + start))
        oob == d.oob \/ r.oob
    IN  IF r.exc # "ok"
        THEN [ret |-> NoPtr, exc |-> r.exc, vf |-> vf, vd |-> d.vd, oob |-> oob]
        ELSE IF ~r.found
        THEN [ret |-> NoPtr, exc |-> "ok", vf |-> vf, vd |-> d.vd, oob |-> oob]
        ELSE IF Len(buf) # page_size
        THEN [ret |-> NoPtr, exc |-> "FileReadingError", vf |-> vf1, vd |-> d.vd, oob |-> oob]
        ELSE [ret |-> Ptr(vf1[v_file_path]), exc |-> "ok",
              vf |-> [vf1 EXCEPT ![v_file_path].data_len = GetFileLength(buf),
                                 ![v_file_path].status = "openR",
                                 ![v_file_path].readers = @ + 1],
              vd |-> d.vd, oob |-> oob]

\* Open, lines 220-229: d is what OpenExistingDirectories left; virtual_dirs.at
\* (line 224) throws for a path that is not a key
OpenIn(pf, vf, v_file_path, id, d) ==
    IF d.exc # "ok"
    THEN [ret |-> NoPtr, exc |-> d.exc, vf |-> vf, vd |-> d.vd, oob |-> d.oob]
    ELSE IF d.dirs # <<>>
    THEN [ret |-> NoPtr, exc |-> "ok", vf |-> vf, vd |-> d.vd, oob |-> d.oob]
    ELSE IF d.file_path \notin DOMAIN d.vd
    THEN [ret |-> NoPtr, exc |-> "out_of_range", vf |-> vf, vd |-> d.vd, oob |-> d.oob]
    ELSE OpenFound(pf, vf, d, d.vd[d.file_path].p_file, v_file_path, id,
                   IF parent_path(v_file_path) # vRoot
                   THEN OpenExistingFile(pf, d.vd, d.vd[d.file_path].p_file, v_file_path)
                   ELSE [exc |-> "ok", found |-> FALSE, info |-> NoInfo, oob |-> FALSE])

\* Open, from the lock on: lines 204-245; oob tells that a read went outside a page
OpenLocked(pf, vf, vd, v_file_path, id) ==
    IF v_file_path \in DOMAIN vf
    THEN IF OpenBusy(vf[v_file_path])
         THEN [ret |-> NoPtr, exc |-> "ok", vf |-> vf, vd |-> vd, oob |-> FALSE]
         ELSE [ret |-> Ptr(vf[v_file_path]), exc |-> "ok",
               vf |-> [vf EXCEPT ![v_file_path].readers = @ + 1], vd |-> vd, oob |-> FALSE]
    ELSE OpenIn(pf, vf, v_file_path, id,
                OpenExistingDirectories(pf, vd, parent_path(v_file_path)))

Open(pf, vf, vd, name, id) ==
    IF InRoot(Normalize(name))
    THEN [ret |-> NoPtr, exc |-> "ok", vf |-> vf, vd |-> vd, oob |-> FALSE]
    ELSE OpenLocked(pf, vf, vd, Normalize(name), id)

\* res is what a call came to after a step that read outside a page (oob): opf is
\* what the physical files held at that step, the first such step counts
Earlier(oob, opf, res) == IF oob THEN [res EXCEPT !.oob = TRUE, !.opf = opf] ELSE res

\* the directories of the stack, created shallowest first (lines 288-293)
RECURSIVE CreateDirs(_, _, _, _, _)

\* c is what CreateFile of the directory on top of the stack left
CreateDirsNext(c, dirs, path) ==
    IF c.exc # "ok"
    THEN c
    ELSE Earlier(c.oob, c.opf, CreateDirs(c.pf, c.vf, c.vd, Tail(dirs), path))

CreateDirs(pf, vf, vd, dirs, path) ==
    IF dirs = <<>>
    THEN [exc |-> "ok", pf |-> pf, vf |-> vf, vd |-> vd, oob |-> FALSE, opf |-> pf]
    ELSE CreateDirsNext(CreateFile(pf, vf, vd, parent_path(Head(dirs)), Head(dirs), path, dir, 0),
                        dirs, path)

\* Create, lines 295-296 and 305-307: n is what CreateFile of the file left
CreateNew(n, v_file_path) ==
    IF n.exc # "ok"
    THEN [ret |-> NoPtr, exc |-> n.exc, pf |-> n.pf, vf |-> n.vf, vd |-> n.vd,
          oob |-> n.oob, opf |-> n.opf]
    ELSE [ret |-> Ptr(n.vf[v_file_path]), exc |-> "ok", pf |-> n.pf,
          vf |-> [n.vf EXCEPT ![v_file_path].status = "openW"], vd |-> n.vd,
          oob |-> n.oob, opf |-> n.opf]

\* Create, lines 297-307: the file has its record (r) on disk
CreateOld(c, r, path, v_file_path) ==
    LET buf == PRead(c.pf[path], page_size, Wrap(r.info.page * page_size + start))
    IN  IF Len(buf) # page_size
        THEN [ret |-> NoPtr, exc |-> "FileReadingError", pf |-> c.pf, vf |-> c.vf, vd |-> c.vd,
              oob |-> FALSE, opf |-> c.pf]
        ELSE [ret |-> Ptr(c.vf[v_file_path]), exc |-> "ok", pf |-> c.pf,
              vf |-> [c.vf EXCEPT ![v_file_path].data_len = GetFileLength(buf),
                                  ![v_file_path].status = "openW"],
              vd |-> c.vd, oob |-> FALSE, opf |-> c.pf]

\* Create, lines 295-307: c is what the loop of lines 288-293 left
CreateAfterDirs(c, r, path, v_file_path, id) ==
    IF c.exc # "ok"
    THEN [ret |-> NoPtr, exc |-> c.exc, pf |-> c.pf, vf |-> c.vf, vd |-> c.vd,
          oob |-> c.oob, opf |-> c.opf]
    ELSE Earlier(c.oob, c.opf,
                 IF r.found
                 THEN CreateOld(c, r, path, v_file_path)
                 ELSE CreateNew(CreateFile(c.pf, c.vf, c.vd, parent_path(v_file_path),
                                           v_file_path, path, file, id),
                                v_file_path))

\* Create, lines 285-307: r is what lines 280-283 found of the file in path
CreateFound(pf, vf, d, path, v_file_path, id, r) ==
    IF r.exc # "ok"
    THEN [ret |-> NoPtr, exc |-> r.exc, pf |-> pf, vf |-> vf, vd |-> d.vd,
          oob |-> r.oob, opf |-> pf]
    ELSE Earlier(r.oob, pf,
                 CreateAfterDirs(
                     CreateDirs(pf,
                                IF r.found
                                THEN InsertFile(vf, v_file_path, r.info.page, path, id)
                                ELSE vf,
                                d.vd, d.dirs, path),
                     r, path, v_file_path, id))

\* line 278: the physical file Create works in
CreatePFile(pf, d) ==
    IF d.file_path = vRoot THEN FindSmallestPFile(pf) ELSE d.vd[d.file_path].p_file

\* Create, lines 278-307: d is what OpenExistingDirectories left
CreateIn(pf, vf, v_file_path, id, d) ==
    IF d.exc # "ok"
    THEN [ret |-> NoPtr, exc |-> d.exc, pf |-> pf, vf |-> vf, vd |-> d.vd,
          oob |-> d.oob, opf |-> pf]
    ELSE Earlier(d.oob, pf,
                 CreateFound(pf, vf, d, CreatePFile(pf, d), v_file_path, id,
                             IF d.dirs = <<>> /\ parent_path(v_file_path) # vRoot
                             THEN OpenExistingFile(pf, d.vd, CreatePFile(pf, d), v_file_path)
                             ELSE [exc |-> "ok", found |-> FALSE, info |-> NoInfo,
                                   oob |-> FALSE]))

\* Create, from the lock on: lines 266-307; oob tells that a read went outside a
\* page, opf what the physical files held at the first such read
CreateLocked(pf, vf, vd, v_file_path, id) ==
    IF CreateBusy(vf, v_file_path)
    THEN [ret |-> NoPtr, exc |-> "ok", pf |-> pf, vf |-> vf, vd |-> vd,
          oob |-> FALSE, opf |-> pf]
    ELSE CreateIn(pf, vf, v_file_path, id,
                  OpenExistingDirectories(pf, vd, parent_path(v_file_path)))

Create(pf, vf, vd, name, id) ==
    IF InRoot(Normalize(name))
    THEN [ret |-> NoPtr, exc |-> "ok", pf |-> pf, vf |-> vf, vd |-> vd,
          oob |-> FALSE, opf |-> pf]
    ELSE CreateLocked(pf, vf, vd, Normalize(name), id)

\* where Read takes the bytes of a round of its loop from: line 329 uses f->page,
\* the first page of the file, in every round
ReadBase(F, page) == Wrap(F.page * page_size + start + st_size)

\* the loop of Read: every round reads the link of the current page into page and
\* then the next piece of the data; a round that reads nothing repeats for ever
RECURSIVE ReadLoop(_, _, _, _, _)
ReadLoop(f, F, len, page, out) ==
    IF Len(out) = len
    THEN [out |-> out, exc |-> "ok"]
    ELSE LET link == PRead(f, st_size, Wrap((page + 1) * page_size - st_size + start))
             next == IF Len(link) = st_size THEN Dec(link) ELSE page
             piece == PRead(f, Min(page_size - st_size, len - Len(out)), ReadBase(F, next))
         IN  IF piece = <<>>
             THEN [out |-> out, exc |-> "hang"]
             ELSE ReadLoop(f, F, len, next, out \o piece)

\* line 312, for a non-null f and buff: a length of 0 and a File not open for reading
ReadRefused(F, length) == length = 0 \/ F.status # "openR"

\* a variant of line 337 that forgets the status of the File
WriteRefusedEmpty(F, buff) == Len(buff) = 0

\* line 337, for a non-null f and buff: a length of 0 and a File not open for writing
WriteRefused(F, buff) == Len(buff) = 0 \/ F.status # "openW"

\* a variant of line 318 without the clamp
ReadLenAsked(F, length) == length

\* line 318: the length is clamped to the length of the file
ReadLen(F, length) == IF length <= F.data_len THEN length ELSE F.data_len

\* Read with a non-null f and buff: the bytes stored in buff, whose count is returned
Read(pf, F, length) ==
    IF ReadRefused(F, length)
    THEN [out |-> <<>>, exc |-> "ok"]
    ELSE LET f == pf[F.p_file]
             len == ReadLen(F, length)
         IN  IF len <= page_size - st_size - st_size
             THEN [out |-> PRead(f, len, Wrap(F.page * page_size + start + st_size)),
                   exc |-> "ok"]
             ELSE ReadLoop(f, F, len, F.page,
                           PRead(f, page_size - st_size - st_size,
                                 Wrap(F.page * page_size + start + st_size)))

\* a variant of line 342 that starts every Write behind the data_length word
WritePosFirst(F) == st_size

\* line 342: the offset in the first page at which Write starts
WritePos(F) == (F.data_len % (page_size - st_size)) + st_size

\* Write with a non-null f and buff, up to the return of WriteToFile (lines 337-342)
WriteData(pf, F, buff) ==
    IF WriteRefused(F, buff)
    THEN [f |-> pf[F.p_file], n |-> 0, done |-> TRUE]
    ELSE LET w == WriteToFile(pf[F.p_file], buff, F.page, WritePos(F), TRUE)
         IN  [f |-> w.f, n |-> w.n, done |-> FALSE]

\* lines 344-345 of Write: the new length, in the File and on disk
WriteLength(f, F, written_bytes) ==
    [f |-> SetFileLength(f, F.page, Wrap(F.data_len + written_bytes)),
     F |-> [F EXCEPT !.data_len = Wrap(@ + written_bytes)]]

\* a variant of lines 356-360 without the early return
CloseReadersThrough(F) ==
    [F |-> [F EXCEPT !.readers = IF @ # 0 THEN @ - 1 ELSE 0], erase |-> TRUE]

\* Close, lines 356-360: TRUE when Close goes on to erase the entry
CloseReaders(F) ==
    IF F.readers # 0
    THEN [F |-> [F EXCEPT !.readers = @ - 1], erase |-> F.readers - 1 = 0]
    ELSE [F |-> F, erase |-> TRUE]

\* Close, line 363
CloseErase(vf, name) == [p \in DOMAIN vf \ {name} |-> vf[p]]

----------------------------------------------------------------------------
(* Construction: VFS::VFS and the bootstrap VFS::Init *)

EmptyMap == [x \in {} |-> 0]

\* the inner do-while of Init: the records of one page, from pos on
RECURSIVE InitPage(_, _, _, _)

\* lines 393-408: r is the record ReadFileInfo took at pos
InitRecord(buf, pos, vd, path, r) ==
    LET oob == ReadFileInfoOutside(buf, pos)
        vd1 == IF r.info.type = dir THEN InsertDir(vd, r.info.name, r.info.page, path) ELSE vd
    IN  IF r.exc # "ok"
        THEN [exc |-> r.exc, vd |-> vd, oob |-> oob]
        ELSE IF r.info.type = dir /\ r.info.name \in DOMAIN vd
        THEN [exc |-> "DirAlreadyExists", vd |-> vd, oob |-> oob]
        ELSE IF r.pos > 0 /\ r.pos < page_size - st_size
        THEN [InitPage(buf, r.pos, vd1, path) EXCEPT !.oob = @ \/ oob]
        ELSE [exc |-> "ok", vd |-> vd1, oob |-> oob]

InitPage(buf, pos, vd, path) == InitRecord(buf, pos, vd, path, ReadFileInfo(buf, pos))

\* the outer do-while of Init: the chain of page 0
RECURSIVE InitChain(_, _, _, _, _)

\* lines 410-411: r is what the records of the page buf left
InitChainNext(f, page, path, seen, buf, r) ==
    IF r.exc # "ok" THEN r
    ELSE IF GetNextPage(buf) = 0 THEN r
    ELSE IF GetNextPage(buf) \in seen \cup {page}
    THEN [exc |-> "hang", vd |-> r.vd, oob |-> r.oob]
    ELSE [InitChain(f, GetNextPage(buf), r.vd, path, seen \cup {page})
              EXCEPT !.oob = @ \/ r.oob]

InitChain(f, page, vd, path, seen) ==
    LET buf == PRead(f, page_size, Wrap(page * page_size + start))
    IN  IF Len(buf) # page_size
        THEN [exc |-> "FileReadingError", vd |-> vd, oob |-> FALSE]
        ELSE InitChainNext(f, page, path, seen, buf, InitPage(buf, 0, vd, path))

VFSInit(f, vd, path) ==
    IF Len(PRead(f, st_size, 0)) # st_size
    THEN [exc |-> "FileReadingError", vd |-> vd, oob |-> FALSE]
    ELSE IF Dec(PRead(f, st_size, 0)) = 0
    THEN [exc |-> "ok", vd |-> vd, oob |-> FALSE]
    ELSE InitChain(f, 0, vd, path, {})

\* the Init tasks of all physical files; they only insert into virtual_dirs
RECURSIVE InitAll(_, _, _)

\* r is what Init of the physical file path left
InitRest(pf, todo, path, r) ==
    IF r.exc # "ok"
    THEN r
    ELSE [InitAll(pf, todo \ {path}, r.vd) EXCEPT !.oob = @ \/ r.oob]

InitAll(pf, todo, vd) ==
    IF todo = {}
    THEN [exc |-> "ok", vd |-> vd, oob |-> FALSE]
    ELSE InitRest(pf, todo, SetMin(todo), VFSInit(pf[SetMin(todo)], vd, SetMin(todo)))

\* an empty physical file gets its st_size zero bytes and one empty page
NewPFile == CreateEmptyPage(PWrite(<<>>, Zeroes(st_size), 0).f)

----------------------------------------------------------------------------
(* The callers *)

Paths == {Normalize(n) : n \in Names}

Pages(f) == (GetSize(f) - st_size) \div page_size

Room == \A i \in PFiles : Pages(pfiles[i]) <= MaxPages

Idle == \A t \in Threads : pc[t] = "idle"

UsedIds == {virtual_files[p].id : p \in DOMAIN virtual_files} \cup DOMAIN freed
               \cup {handle[t].id : t \in Threads}

FreshId == SetMin((1..(Cardinality(UsedIds) + 1)) \ UsedIds)

\* last: the call (op; path, the name passed to Open or Create; file, the File*
\* passed to Read, Write or Close; len and buff, the length and the buffer passed)
\* and its outcome (ret, the File* returned; n, the size_t returned; out, the
\* bytes stored in the caller's buffer; exc, the exception that left the call);
\* nullbuff tells that the buffer passed was a null pointer
Call(op, path, fp, len, buff, ret, n, out, exc) ==
    [op |-> op, path |-> path, file |-> fp, len |-> len, buff |-> buff,
     ret |-> ret, n |-> n, out |-> out, exc |-> exc, nullbuff |-> FALSE]

CallByName(op, path, ret, exc) == Call(op, path, NoHandle, 0, <<>>, ret, 0, <<>>, exc)

CallByFile(op, f, len, buff, n, out, exc) == Call(op, <<>>, f, len, buff, NoPtr, n, out, exc)

\* Read or Write with a null buffer: 0 comes back and nothing is stored
CallNullBuff(op, f, len) ==
    [CallByFile(op, f, len, <<>>, 0, <<>>, "ok") EXCEPT !.nullbuff = TRUE]

\* a read outside a buffer is undefined: it yields the bytes that happen to follow
\* the buffer (zero in this model) or it ends the process
Faults(oob) == IF oob THEN {FALSE, TRUE} ELSE {FALSE}

\* the process is gone: its memory with it, the physical files as pf
Killed(pf) ==
    /\ pfiles' = pf
    /\ virtual_files' = EmptyMap
    /\ virtual_dirs' = EmptyMap
    /\ freed' = EmptyMap
    /\ handle' = [t \in Threads |-> NoHandle]
    /\ pc' = [t \in Threads |-> "dead"]

\* the sequential caller keeps a new handle in its first free slot
FirstFree(t) == handle[t] = NoHandle /\ \A u \in Threads : u < t => handle[u] # NoHandle

Stop(t, exc) == IF exc = "hang" THEN [pc EXCEPT ![t] = "hung"] ELSE pc

RECURSIVE TotalWritten(_)
TotalWritten(w) == IF w = <<>> THEN 0 ELSE Len(Head(w).data) + TotalWritten(Tail(w))

DataRoom(buff) ==
    TotalWritten(written) + Len(buff) <= IF scope = "links" THEN MaxDataLinks
                                         ELSE IF scope = "data" THEN MaxData ELSE MaxDataWide

\* the locals of a caller that is in no call
NoFrame ==
    [path |-> <<>>, dirs |-> <<>>, p_file |-> 0, found |-> FALSE, page |-> 0, pos |-> 0,
     buff |-> <<>>, n |-> 0]

\* after construction no mutex is held
LocksFree ==
    /\ editing_files_mutex = 0
    /\ io_mutexes = [i \in PFiles |-> 0]
    /\ frame = [t \in Threads |-> NoFrame]

Init ==
    /\ scope \in Scopes
    /\ pfiles = [i \in PFiles |-> NewPFile]
    /\ virtual_files = EmptyMap
    /\ virtual_dirs = InitAll([i \in PFiles |-> NewPFile], PFiles, EmptyMap).vd
    /\ freed = EmptyMap
    /\ handle = [t \in Threads |-> NoHandle]
    /\ pc = [t \in Threads |-> "idle"]
    /\ written = <<>>
    /\ last = CallByName("VFS", <<>>, NoPtr, "ok")
    /\ LocksFree

\* Open(name) comes to r for caller t, unless a read outside a page ends the process
OpenReturn(t, name, r) ==
    \E fault \in Faults(r.oob) :
        IF fault
        THEN /\ Killed(pfiles)
             /\ last' = CallByName("Open", name, NoPtr, "SIGSEGV")
        ELSE /\ virtual_files' = r.vf
             /\ virtual_dirs' = r.vd
             /\ handle' = [handle EXCEPT ![t] = Held(r.ret, "Open")]
             /\ pc' = Stop(t, r.exc)
             /\ last' = CallByName("Open", name, r.ret, r.exc)
             /\ UNCHANGED <<pfiles, freed>>

\* Create(name) comes to r for caller t, unless a read outside a page ends the process
CreateReturn(t, name, r) ==
    \E fault \in Faults(r.oob) :
        IF fault
        THEN /\ Killed(r.opf)
             /\ last' = CallByName("Create", name, NoPtr, "SIGSEGV")
        ELSE /\ pfiles' = r.pf
             /\ virtual_files' = r.vf
             /\ virtual_dirs' = r.vd
             /\ handle' = [handle EXCEPT ![t] = Held(r.ret, "Create")]
             /\ pc' = Stop(t, r.exc)
             /\ last' = CallByName("Create", name, r.ret, r.exc)
             /\ UNCHANGED freed

\* the constructor comes to r, unless a read outside a page ends the process
InitReturn(r) ==
    \E fault \in Faults(r.oob) :
        IF fault
        THEN /\ Killed(pfiles)
             /\ last' = CallByName("VFS", <<>>, NoPtr, "SIGSEGV")
        ELSE /\ virtual_dirs' = r.vd
             /\ pc' = IF r.exc = "ok" THEN pc ELSE [t \in Threads |-> "dead"]
             /\ last' = CallByName("VFS", <<>>, NoPtr, r.exc)
             /\ virtual_files' = EmptyMap
             /\ freed' = EmptyMap
             /\ UNCHANGED <<pfiles, handle>>

DoOpen(t, name) ==
    /\ Idle
    /\ FirstFree(t)
    /\ OpenReturn(t, name, Open(pfiles, virtual_files, virtual_dirs, name, FreshId))
    /\ UNCHANGED <<scope, written>>
    /\ UNCHANGED lockvars

DoCreate(t, name) ==
    /\ Idle
    /\ Room
    /\ FirstFree(t)
    /\ CreateReturn(t, name, Create(pfiles, virtual_files, virtual_dirs, name, FreshId))
    /\ UNCHANGED <<scope, written>>
    /\ UNCHANGED lockvars

DoRead(t, len) ==
    /\ Idle
    /\ LET r == IF handle[t] = NoHandle THEN [out |-> <<>>, exc |-> "ok"]
                ELSE Read(pfiles, virtual_files[handle[t].name], len)
       IN  /\ last' = CallByFile("Read", handle[t], len, <<>>, Len(r.out), r.out, r.exc)
           /\ pc' = Stop(t, r.exc)
    /\ UNCHANGED <<pfiles, virtual_files, virtual_dirs, freed, handle, scope, written>>
    /\ UNCHANGED lockvars

\* Read(f, nullptr, len): the second test of line 312
DoReadNullBuff(t, len) ==
    /\ Idle
    /\ last' = CallNullBuff("Read", handle[t], len)
    /\ UNCHANGED <<pfiles, virtual_files, virtual_dirs, freed, handle, pc, scope, written>>
    /\ UNCHANGED lockvars

\* Write(f, nullptr, len): the second test of line 337
DoWriteNullBuff(t, len) ==
    /\ Idle
    /\ last' = CallNullBuff("Write", handle[t], len)
    /\ UNCHANGED <<pfiles, virtual_files, virtual_dirs, freed, handle, pc, scope, written>>
    /\ UNCHANGED lockvars

\* Write(f, buff, len) with a buffer of len bytes; f is null when t holds no File*
DoWrite(t, buff) ==
    /\ Idle
    /\ Room
    /\ DataRoom(buff)
    /\ LET F == virtual_files[handle[t].name]
           w == IF handle[t] = NoHandle
                THEN [f |-> <<>>, n |-> 0, done |-> TRUE]
                ELSE WriteData(pfiles, F, buff)
           l == WriteLength(w.f, F, w.n)
       IN  /\ pfiles' = IF w.done THEN pfiles ELSE [pfiles EXCEPT ![F.p_file] = l.f]
           /\ virtual_files' = IF w.done THEN virtual_files
                               ELSE [virtual_files EXCEPT ![F.name] = l.F]
           /\ written' = IF w.n = 0 THEN written
                         ELSE Append(written, [name |-> F.name, data |-> SubSeq(buff, 1, w.n)])
           /\ last' = CallByFile("Write", handle[t], Len(buff), buff, w.n, <<>>, "ok")
    /\ UNCHANGED <<virtual_dirs, freed, handle, pc, scope>>
    /\ UNCHANGED lockvars

DoClose(t) ==
    /\ Idle
    /\ handle[t] # NoHandle
    /\ LET F == virtual_files[handle[t].name]
           c == CloseReaders(F)
       IN  /\ virtual_files' = IF c.erase THEN CloseErase(virtual_files, F.name)
                               ELSE [virtual_files EXCEPT ![F.name] = c.F]
           /\ last' = CallByFile("Close", handle[t], 0, <<>>, 0, <<>>, "ok")
    /\ handle' = [handle EXCEPT ![t] = NoHandle]
    /\ UNCHANGED <<pfiles, virtual_dirs, freed, pc, scope, written>>
    /\ UNCHANGED lockvars

\* Close(nullptr), and Close of a File that is not an entry of virtual_files
DoCloseUnknown(name) ==
    /\ Idle
    /\ name = <<>> \/ name \notin DOMAIN virtual_files
    /\ last' = CallByFile("Close", [name |-> name, id |-> 0, by |-> "none"], 0, <<>>, 0, <<>>, "ok")
    /\ UNCHANGED <<pfiles, virtual_files, virtual_dirs, freed, handle, pc, scope, written>>
    /\ UNCHANGED lockvars

\* the VFS is destroyed and constructed again over the same physical files
DoRestart ==
    /\ Idle
    /\ \A t \in Threads : handle[t] = NoHandle
    /\ InitReturn(InitAll(pfiles, PFiles, EmptyMap))
    /\ UNCHANGED <<scope, written>>
    /\ UNCHANGED lockvars

Next ==
    \/ \E t \in Threads, name \in OpenNames(scope) : DoOpen(t, name)
    \/ \E t \in Threads, name \in CreateNames(scope) : DoCreate(t, name)
    \/ \E t \in Threads, len \in ReadLens : DoRead(t, len)
    \/ \E t \in Threads, buff \in Buffers(scope) : DoWrite(t, buff)
    \/ \E t \in Threads, len \in {5} : DoReadNullBuff(t, len)
    \/ \E t \in Threads, len \in {5} : DoWriteNullBuff(t, len)
    \/ \E t \in Threads : DoClose(t)
    \/ \E name \in {<<>>, NameAF} : DoCloseUnknown(name)
    \/ DoRestart

Spec == Init /\ [][Next]_vars

----------------------------------------------------------------------------
(* Concurrent callers. Open and Create run from line 204 / 266 on under       *)
(* editing_files_mutex, so each is one step; Close takes the mutex only for   *)
(* the erase (line 362), so its count test, its test of readers and its       *)
(* decrement are steps of their own. readers is a std::atomic.                *)

MaxDataConc == 13

ConcScopes == {"race", "readers"}

ConcReadLens == {5, 13}

\* a File* whose entry was erased from virtual_files
Dangling(h) == h # NoHandle /\ ~(h.name \in DOMAIN virtual_files /\ virtual_files[h.name].id = h.id)

\* what a File* can point to: its entry; after the erase (a use after free) the
\* old contents of the freed node, or the entry that was inserted under the same
\* name and took the node over
Targets(h) ==
    IF ~Dangling(h)
    THEN {[live |-> TRUE, name |-> h.name]}
    ELSE {[live |-> FALSE, name |-> h.name]}
             \cup {[live |-> TRUE, name |-> q] : q \in DOMAIN virtual_files \cap {h.name}}

Deref(h, tg) == IF tg.live THEN virtual_files[tg.name] ELSE freed[h.id]

\* the freed nodes that some File* still points to
Keep(fr, hs) == [i \in DOMAIN fr \cap {hs[t].id : t \in Threads} |-> fr[i]]

ConcDataRoom(buff) == TotalWritten(written) + Len(buff) <= MaxDataConc

InitConc ==
    /\ scope \in ConcScopes
    /\ pfiles = [i \in PFiles |-> NewPFile]
    /\ virtual_files = EmptyMap
    /\ virtual_dirs = InitAll([i \in PFiles |-> NewPFile], PFiles, EmptyMap).vd
    /\ freed = EmptyMap
    /\ handle = [t \in Threads |-> NoHandle]
    /\ pc = [t \in Threads |-> "idle"]
    /\ written = <<>>
    /\ last = CallByName("VFS", <<>>, NoPtr, "ok")
    /\ LocksFree

ConcOpen(t, name) ==
    /\ pc[t] = "idle"
    /\ handle[t] = NoHandle
    /\ OpenReturn(t, name, Open(pfiles, virtual_files, virtual_dirs, name, FreshId))
    /\ UNCHANGED <<scope, written>>
    /\ UNCHANGED lockvars

ConcCreate(t, name) ==
    /\ pc[t] = "idle"
    /\ handle[t] = NoHandle
    /\ Room
    /\ CreateReturn(t, name, Create(pfiles, virtual_files, virtual_dirs, name, FreshId))
    /\ UNCHANGED <<scope, written>>
    /\ UNCHANGED lockvars

ConcRead(t, len) ==
    /\ pc[t] = "idle"
    /\ handle[t] # NoHandle
    /\ scope = "readers"
    /\ \E tg \in Targets(handle[t]) :
           LET r == Read(pfiles, Deref(handle[t], tg), len)
           IN  /\ last' = CallByFile("Read", handle[t], len, <<>>, Len(r.out), r.out, r.exc)
               /\ pc' = Stop(t, r.exc)
    /\ UNCHANGED <<pfiles, virtual_files, virtual_dirs, freed, handle, scope, written>>
    /\ UNCHANGED lockvars

ConcWrite(t, buff) ==
    /\ pc[t] = "idle"
    /\ handle[t] # NoHandle
    /\ scope = "readers"
    /\ Room
    /\ ConcDataRoom(buff)
    /\ \E tg \in Targets(handle[t]) :
           LET F == Deref(handle[t], tg)
               w == WriteData(pfiles, F, buff)
               l == WriteLength(w.f, F, w.n)
           IN  /\ pfiles' = IF w.done THEN pfiles ELSE [pfiles EXCEPT ![F.p_file] = l.f]
               /\ virtual_files' = IF w.done \/ ~tg.live THEN virtual_files
                                   ELSE [virtual_files EXCEPT ![tg.name] = l.F]
               /\ freed' = IF w.done \/ tg.live THEN freed
                           ELSE [freed EXCEPT ![handle[t].id] = l.F]
               /\ written' = IF w.n = 0 THEN written
                             ELSE Append(written, [name |-> F.name, data |-> SubSeq(buff, 1, w.n)])
               /\ last' = CallByFile("Write", handle[t], Len(buff), buff, w.n, <<>>, "ok")
    /\ UNCHANGED <<virtual_dirs, handle, pc, scope>>
    /\ UNCHANGED lockvars

\* Close has returned: the caller gives its File* up
CloseReturn(t, fr) ==
    /\ handle' = [handle EXCEPT ![t] = NoHandle]
    /\ freed' = Keep(fr, [handle EXCEPT ![t] = NoHandle])
    /\ pc' = [pc EXCEPT ![t] = "idle"]
    /\ last' = CallByFile("Close", handle[t], 0, <<>>, 0, <<>>, "ok")

\* line 352: virtual_files.count(f->name), read without the mutex
CloseCount(t) ==
    /\ pc[t] = "idle"
    /\ handle[t] # NoHandle
    /\ scope = "race" \/ handle[t].by = "Create"
    /\ \E tg \in Targets(handle[t]) :
           IF Deref(handle[t], tg).name \in DOMAIN virtual_files
           THEN /\ pc' = [pc EXCEPT ![t] = "close_test"]
                /\ UNCHANGED <<handle, freed, last>>
           ELSE CloseReturn(t, freed)
    /\ UNCHANGED <<pfiles, virtual_files, virtual_dirs, scope, written>>
    /\ UNCHANGED lockvars

\* line 356: if (f->readers)
CloseTest(t) ==
    /\ pc[t] = "close_test"
    /\ \E tg \in Targets(handle[t]) :
           pc' = [pc EXCEPT ![t] = IF Deref(handle[t], tg).readers # 0
                                   THEN "close_dec" ELSE "close_erase"]
    /\ UNCHANGED <<pfiles, virtual_files, virtual_dirs, freed, handle, scope, written, last>>
    /\ UNCHANGED lockvars

\* lines 357-359: if (--(f->readers)) return
CloseDec(t) ==
    /\ pc[t] = "close_dec"
    /\ \E tg \in Targets(handle[t]) :
           LET F == Deref(handle[t], tg)
               G == [F EXCEPT !.readers = Wrap(@ - 1)]
               vf == IF tg.live THEN [virtual_files EXCEPT ![tg.name] = G] ELSE virtual_files
               fr == IF tg.live THEN freed ELSE [freed EXCEPT ![handle[t].id] = G]
           IN  /\ virtual_files' = vf
               /\ IF G.readers # 0
                  THEN CloseReturn(t, fr)
                  ELSE /\ pc' = [pc EXCEPT ![t] = "close_erase"]
                       /\ freed' = fr
                       /\ UNCHANGED <<handle, last>>
    /\ UNCHANGED <<pfiles, virtual_dirs, scope, written>>
    /\ UNCHANGED lockvars

\* lines 362-363: the erase, under editing_files_mutex
CloseEraseLocked(t) ==
    /\ pc[t] = "close_erase"
    /\ \E tg \in Targets(handle[t]) :
           LET name == Deref(handle[t], tg).name
               gone == IF name \in DOMAIN virtual_files
                       THEN (virtual_files[name].id :> virtual_files[name]) @@ freed
                       ELSE freed
           IN  /\ virtual_files' = CloseErase(virtual_files, name)
               /\ CloseReturn(t, gone)
    /\ UNCHANGED <<pfiles, virtual_dirs, scope, written>>
    /\ UNCHANGED lockvars

\* a use of a freed node can also end the process
UseAfterFree(t) ==
    /\ pc[t] \in {"idle", "close_test", "close_dec", "close_erase"}
    /\ Dangling(handle[t])
    /\ pc' = [u \in Threads |-> "dead"]
    /\ UNCHANGED <<pfiles, virtual_files, virtual_dirs, freed, handle, scope, written, last>>
    /\ UNCHANGED lockvars

NextConc ==
    \/ \E t \in Threads : ConcOpen(t, NameAF)
    \/ \E t \in Threads : ConcCreate(t, NameAF)
    \/ \E t \in Threads, len \in ConcReadLens : ConcRead(t, len)
    \/ \E t \in Threads, buff \in DataSet : ConcWrite(t, buff)
    \/ \E t \in Threads : CloseCount(t)
    \/ \E t \in Threads : CloseTest(t)
    \/ \E t \in Threads : CloseDec(t)
    \/ \E t \in Threads : CloseEraseLocked(t)
    \/ \E t \in Threads : UseAfterFree(t)

SpecConc == InitConc /\ [][NextConc]_vars

----------------------------------------------------------------------------
(* Callers and mutexes. A call is a sequence of steps: it waits for           *)
(* editing_files_mutex (Open 204, Create 266, Close 362) and for the          *)
(* recursive mutex of its physical file (Create 285, WriteToFile 550), and    *)
(* between two waits it runs. v_dirs_mutex (458), v_files_mutex (469) and the *)
(* io_mutex of a PhysicalFile (58, 84) are taken and released inside one call *)
(* that takes no other mutex, so they are taken inside a step (Takes).        *)
(* Caller 1 alone calls Open, so no entry has two readers and lines 352-360   *)
(* of Close are one step.                                                     *)

MaxDataLocks == 18

\* caller 1 works on one file, which it creates, writes, closes, opens and
\* reads; caller 2 creates and closes a file two directories deep
LockNames(t) == IF t = 1 THEN {NameAF} ELSE {NameABF}

LockBuffers == {Pattern(5), Pattern(13)}

LockReadLens == {13}

Opener == SetMin(Threads)

LockDataRoom(buff) == TotalWritten(written) + Len(buff) <= MaxDataLocks

InitLocks ==
    /\ scope = "locks"
    /\ pfiles = [i \in PFiles |-> NewPFile]
    /\ virtual_files = EmptyMap
    /\ virtual_dirs = InitAll([i \in PFiles |-> NewPFile], PFiles, EmptyMap).vd
    /\ freed = EmptyMap
    /\ handle = [t \in Threads |-> NoHandle]
    /\ pc = [t \in Threads |-> "idle"]
    /\ written = <<>>
    /\ last = CallByName("VFS", <<>>, NoPtr, "ok")
    /\ LocksFree

\* the lock_guards of caller t go out of scope
Release(t) ==
    /\ editing_files_mutex' = IF editing_files_mutex = t THEN 0 ELSE editing_files_mutex
    /\ io_mutexes' = [i \in PFiles |-> IF io_mutexes[i] = t THEN 0 ELSE io_mutexes[i]]

\* the call of t ends with exc: it returns or is left by an exception, and its
\* lock_guards release; or it is in a loop that never ends, with what it holds
LkEnd(t, exc) ==
    IF exc = "hang"
    THEN /\ pc' = [pc EXCEPT ![t] = "hung"]
         /\ UNCHANGED lockvars
    ELSE /\ pc' = [pc EXCEPT ![t] = "idle"]
         /\ frame' = [frame EXCEPT ![t] = NoFrame]
         /\ Release(t)

\* a read outside a page ended the process with the physical files as pf
LkKilled(pf, call) ==
    /\ Killed(pf)
    /\ last' = call
    /\ editing_files_mutex' = 0
    /\ io_mutexes' = [i \in PFiles |-> 0]
    /\ frame' = [t \in Threads |-> NoFrame]

\* Open, lines 187-201: the path is made, then the caller waits at line 204
LkOpen(t, name) ==
    /\ pc[t] = "idle"
    /\ t = Opener
    /\ handle[t] = NoHandle
    /\ pc' = [pc EXCEPT ![t] = "open_lock"]
    /\ frame' = [frame EXCEPT ![t] = [NoFrame EXCEPT !.path = Normalize(name)]]
    /\ UNCHANGED <<pfiles, virtual_files, virtual_dirs, freed, handle, scope, written, last,
                   editing_files_mutex, io_mutexes>>

\* Create, lines 249-263: the path is made, then the caller waits at line 266
LkCreate(t, name) ==
    /\ pc[t] = "idle"
    /\ handle[t] = NoHandle
    /\ Room
    /\ pc' = [pc EXCEPT ![t] = "create_lock"]
    /\ frame' = [frame EXCEPT ![t] = [NoFrame EXCEPT !.path = Normalize(name)]]
    /\ UNCHANGED <<pfiles, virtual_files, virtual_dirs, freed, handle, scope, written, last,
                   editing_files_mutex, io_mutexes>>

\* lines 204, 266 and 362: std::lock_guard of editing_files_mutex
LockEditing(t) ==
    /\ pc[t] \in {"open_lock", "create_lock", "close_lock"}
    /\ editing_files_mutex = 0
    /\ editing_files_mutex' = t
    /\ pc' = [pc EXCEPT ![t] = IF pc[t] = "open_lock" THEN "open"
                                ELSE IF pc[t] = "create_lock" THEN "create" ELSE "close"]
    /\ UNCHANGED <<pfiles, virtual_files, virtual_dirs, freed, handle, scope, written, last,
                   io_mutexes, frame>>

\* Open(path) comes to r for caller t
LkOpenReturn(t, r) ==
    \E fault \in Faults(r.oob) :
        IF fault
        THEN LkKilled(pfiles, CallByName("Open", frame[t].path, NoPtr, "SIGSEGV"))
        ELSE /\ virtual_files' = r.vf
             /\ virtual_dirs' = r.vd
             /\ handle' = [handle EXCEPT ![t] = Held(r.ret, "Open")]
             /\ last' = CallByName("Open", frame[t].path, r.ret, r.exc)
             /\ LkEnd(t, r.exc)
             /\ UNCHANGED <<pfiles, freed>>

\* Open, lines 207-245, under editing_files_mutex
LkOpenLocked(t) ==
    /\ pc[t] = "open"
    /\ LkOpenReturn(t, OpenLocked(pfiles, virtual_files, virtual_dirs, frame[t].path, FreshId))
    /\ UNCHANGED <<scope, written>>

\* Create leaves before line 285 with exc, having read outside a page or not
LkCreateLeave(t, vd, exc, oob) ==
    \E fault \in Faults(oob) :
        IF fault
        THEN LkKilled(pfiles, CallByName("Create", frame[t].path, NoPtr, "SIGSEGV"))
        ELSE /\ virtual_dirs' = vd
             /\ last' = CallByName("Create", frame[t].path, NoPtr, exc)
             /\ LkEnd(t, exc)
             /\ UNCHANGED <<pfiles, virtual_files, freed, handle>>

\* Create, lines 280-285: r is what was found of the file in the physical file
\* path; the caller goes on to wait for the mutex of that file
LkCreateFound(t, d, path, r) ==
    IF r.exc # "ok"
    THEN LkCreateLeave(t, d.vd, r.exc, d.oob \/ r.oob)
    ELSE \E fault \in Faults(d.oob \/ r.oob) :
             IF fault
             THEN LkKilled(pfiles, CallByName("Create", frame[t].path, NoPtr, "SIGSEGV"))
             ELSE /\ virtual_dirs' = d.vd
                  /\ virtual_files' = IF r.found
                                      THEN InsertFile(virtual_files, frame[t].path, r.info.page,
                                                      path, FreshId)
                                      ELSE virtual_files
                  /\ frame' = [frame EXCEPT ![t].dirs = d.dirs, ![t].p_file = path,
                                            ![t].found = r.found, ![t].page = r.info.page]
                  /\ pc' = [pc EXCEPT ![t] = "create_io"]
                  /\ UNCHANGED <<pfiles, freed, handle, last, editing_files_mutex, io_mutexes>>

\* Create, lines 273-283: d is what OpenExistingDirectories left
LkCreateIn(t, d) ==
    IF d.exc # "ok"
    THEN LkCreateLeave(t, d.vd, d.exc, d.oob)
    ELSE LkCreateFound(t, d, CreatePFile(pfiles, d),
                       IF d.dirs = <<>> /\ parent_path(frame[t].path) # vRoot
                       THEN OpenExistingFile(pfiles, d.vd, CreatePFile(pfiles, d), frame[t].path)
                       ELSE [exc |-> "ok", found |-> FALSE, info |-> NoInfo, oob |-> FALSE])

\* Create, lines 269-283, under editing_files_mutex
LkCreateFind(t) ==
    /\ pc[t] = "create"
    /\ IF CreateBusy(virtual_files, frame[t].path)
       THEN LkCreateLeave(t, virtual_dirs, "ok", FALSE)
       ELSE LkCreateIn(t, OpenExistingDirectories(pfiles, virtual_dirs,
                                                  parent_path(frame[t].path)))
    /\ UNCHANGED <<scope, written>>

\* lines 285 and 550: std::lock_guard of the recursive mutex of the physical file
LockIo(t) ==
    /\ pc[t] \in {"create_io", "write_lock"}
    /\ io_mutexes[frame[t].p_file] = 0
    /\ io_mutexes' = [io_mutexes EXCEPT ![frame[t].p_file] = t]
    /\ pc' = [pc EXCEPT ![t] = IF pc[t] = "create_io" THEN "create_dirs" ELSE "write"]
    /\ UNCHANGED <<pfiles, virtual_files, virtual_dirs, freed, handle, scope, written, last,
                   editing_files_mutex, frame>>

\* c is what CreateFile of the directory on top of the stack left
LkCreateDirDone(t, c) ==
    IF c.exc # "ok"
    THEN /\ pfiles' = c.pf
         /\ last' = CallByName("Create", frame[t].path, NoPtr, c.exc)
         /\ LkEnd(t, c.exc)
         /\ UNCHANGED <<virtual_files, virtual_dirs, freed, handle>>
    ELSE \E fault \in Faults(c.oob) :
             IF fault
             THEN LkKilled(c.opf, CallByName("Create", frame[t].path, NoPtr, "SIGSEGV"))
             ELSE /\ pfiles' = c.pf
                  /\ virtual_dirs' = c.vd
                  /\ frame' = [frame EXCEPT ![t].dirs = Tail(@)]
                  /\ UNCHANGED <<virtual_files, freed, handle, pc, last,
                                 editing_files_mutex, io_mutexes>>

\* Create, lines 288-293: one round of the loop, under both mutexes
LkCreateDir(t) ==
    /\ pc[t] = "create_dirs"
    /\ frame[t].dirs # <<>>
    /\ LkCreateDirDone(t, CreateFile(pfiles, virtual_files, virtual_dirs,
                                     parent_path(Head(frame[t].dirs)), Head(frame[t].dirs),
                                     frame[t].p_file, dir, 0))
    /\ UNCHANGED <<scope, written>>

\* Create(path) comes to n for caller t
LkCreateReturn(t, n) ==
    \E fault \in Faults(n.oob) :
        IF fault
        THEN LkKilled(n.opf, CallByName("Create", frame[t].path, NoPtr, "SIGSEGV"))
        ELSE /\ pfiles' = n.pf
             /\ virtual_files' = n.vf
             /\ virtual_dirs' = n.vd
             /\ handle' = [handle EXCEPT ![t] = Held(n.ret, "Create")]
             /\ last' = CallByName("Create", frame[t].path, n.ret, n.exc)
             /\ LkEnd(t, n.exc)
             /\ UNCHANGED freed

\* Create, lines 295-307, under both mutexes
LkCreateFile(t) ==
    /\ pc[t] = "create_dirs"
    /\ frame[t].dirs = <<>>
    /\ LkCreateReturn(t,
           IF frame[t].found
           THEN CreateOld([pf |-> pfiles, vf |-> virtual_files, vd |-> virtual_dirs],
                          [info |-> [page |-> frame[t].page]], frame[t].p_file, frame[t].path)
           ELSE CreateNew(CreateFile(pfiles, virtual_files, virtual_dirs,
                                     parent_path(frame[t].path), frame[t].path,
                                     frame[t].p_file, file, FreshId),
                          frame[t].path))
    /\ UNCHANGED <<scope, written>>

\* Read(f, buff, len): it takes no mutex of VFS
LkRead(t, len) ==
    /\ pc[t] = "idle"
    /\ handle[t] # NoHandle
    /\ last' = CallByFile("Read", handle[t], len, <<>>,
                          Len(Read(pfiles, virtual_files[handle[t].name], len).out),
                          Read(pfiles, virtual_files[handle[t].name], len).out,
                          Read(pfiles, virtual_files[handle[t].name], len).exc)
    /\ pc' = Stop(t, Read(pfiles, virtual_files[handle[t].name], len).exc)
    /\ UNCHANGED <<pfiles, virtual_files, virtual_dirs, freed, handle, scope, written, lockvars>>

\* Write, lines 337-342: a refused Write returns 0; another takes f->page and
\* the offset of line 342 and waits at line 550
LkWrite(t, buff) ==
    /\ pc[t] = "idle"
    /\ handle[t] # NoHandle
    /\ Room
    /\ LockDataRoom(buff)
    /\ IF WriteRefused(virtual_files[handle[t].name], buff)
       THEN /\ last' = CallByFile("Write", handle[t], Len(buff), buff, 0, <<>>, "ok")
            /\ UNCHANGED <<pc, frame>>
       ELSE /\ pc' = [pc EXCEPT ![t] = "write_lock"]
            /\ frame' = [frame EXCEPT ![t] =
                            [NoFrame EXCEPT !.path = handle[t].name,
                                            !.p_file = virtual_files[handle[t].name].p_file,
                                            !.page = virtual_files[handle[t].name].page,
                                            !.pos = WritePos(virtual_files[handle[t].name]),
                                            !.buff = buff]]
            /\ UNCHANGED last
    /\ UNCHANGED <<pfiles, virtual_files, virtual_dirs, freed, handle, scope, written,
                   editing_files_mutex, io_mutexes>>

\* WriteToFile, lines 554-561: the bytes that go into the page; done tells that
\* the call returns at line 555
WriteInPage(f, buf, page, pos) ==
    IF Len(buf) <= Wrap(Wrap(page_size - pos) - st_size)
    THEN [f |-> PWrite(f, buf, Wrap(page * page_size + pos + start)).f,
          n |-> PWrite(f, buf, Wrap(page * page_size + pos + start)).n, done |-> TRUE]
    ELSE [f |-> PWrite(f, SubSeq(buf, 1, page_size - pos - st_size),
                       Wrap(page * page_size + pos + start)).f,
          n |-> PWrite(f, SubSeq(buf, 1, page_size - pos - st_size),
                       Wrap(page * page_size + pos + start)).n, done |-> FALSE]

\* WriteToFile, lines 564-565: one round of the loop
WriteNextPage(f, buf, page, written_bytes) ==
    PAppend(SetNextPage(f, page, (GetSize(f) - st_size) \div page_size),
            SubSeq(buf, written_bytes + 1,
                   written_bytes + Min(page_size - st_size, Len(buf) - written_bytes)))

\* WriteToFile, line 568
WritePadding(f, written_bytes) == PAppend(f, Zeroes(page_size - (written_bytes % page_size))).f

\* w is what lines 554-561 wrote
LkWriteInPage(t, w) ==
    /\ pfiles' = [pfiles EXCEPT ![frame[t].p_file] = w.f]
    /\ frame' = [frame EXCEPT ![t].n = w.n]
    /\ pc' = [pc EXCEPT ![t] = IF w.done THEN "write_len" ELSE "write_carry"]
    /\ io_mutexes' = IF w.done THEN [io_mutexes EXCEPT ![frame[t].p_file] = 0] ELSE io_mutexes

\* WriteToFile, lines 554-561, under the mutex of the physical file
LkWriteFirst(t) ==
    /\ pc[t] = "write"
    /\ LkWriteInPage(t, WriteInPage(pfiles[frame[t].p_file], frame[t].buff, frame[t].page,
                                    frame[t].pos))
    /\ UNCHANGED <<virtual_files, virtual_dirs, freed, handle, scope, written, last,
                   editing_files_mutex>>

\* WriteToFile, lines 563-566: a round of the loop, under the mutex
LkWriteNextPage(t) ==
    /\ pc[t] = "write_carry"
    /\ Len(frame[t].buff) - frame[t].n # 0
    /\ pfiles' = [pfiles EXCEPT ![frame[t].p_file] =
                       WriteNextPage(@, frame[t].buff, frame[t].page, frame[t].n).f]
    /\ frame' = [frame EXCEPT ![t].n =
                      @ + WriteNextPage(pfiles[frame[t].p_file], frame[t].buff, frame[t].page,
                                        frame[t].n).n]
    /\ UNCHANGED <<virtual_files, virtual_dirs, freed, handle, pc, scope, written, last,
                   editing_files_mutex, io_mutexes>>

\* WriteToFile, lines 568-570: the padding; the mutex is released at the return
LkWritePad(t) ==
    /\ pc[t] = "write_carry"
    /\ Len(frame[t].buff) - frame[t].n = 0
    /\ pfiles' = [pfiles EXCEPT ![frame[t].p_file] = WritePadding(@, frame[t].n)]
    /\ io_mutexes' = [io_mutexes EXCEPT ![frame[t].p_file] = 0]
    /\ pc' = [pc EXCEPT ![t] = "write_len"]
    /\ UNCHANGED <<virtual_files, virtual_dirs, freed, handle, scope, written, last,
                   editing_files_mutex, frame>>

\* Write, lines 344-347, under no mutex of VFS
LkWriteLen(t) ==
    /\ pc[t] = "write_len"
    /\ pfiles' = [pfiles EXCEPT ![frame[t].p_file] =
                       WriteLength(@, virtual_files[frame[t].path], frame[t].n).f]
    /\ virtual_files' = [virtual_files EXCEPT ![frame[t].path] =
                              WriteLength(pfiles[frame[t].p_file], @, frame[t].n).F]
    /\ written' = IF frame[t].n = 0 THEN written
                  ELSE Append(written, [name |-> frame[t].path,
                                        data |-> SubSeq(frame[t].buff, 1, frame[t].n)])
    /\ last' = CallByFile("Write", handle[t], Len(frame[t].buff), frame[t].buff, frame[t].n,
                          <<>>, "ok")
    /\ LkEnd(t, "ok")
    /\ UNCHANGED <<virtual_dirs, freed, handle, scope>>

\* c is what lines 356-360 left of the File
LkCloseReaders(t, c) ==
    /\ virtual_files' = [virtual_files EXCEPT ![handle[t].name] = c.F]
    /\ IF c.erase
       THEN /\ pc' = [pc EXCEPT ![t] = "close_lock"]
            /\ frame' = [frame EXCEPT ![t] = [NoFrame EXCEPT !.path = handle[t].name]]
            /\ UNCHANGED <<handle, last>>
       ELSE /\ handle' = [handle EXCEPT ![t] = NoHandle]
            /\ last' = CallByFile("Close", handle[t], 0, <<>>, 0, <<>>, "ok")
            /\ UNCHANGED <<pc, frame>>

\* Close, lines 352-360: the caller returns, or it waits at line 362
LkClose(t) ==
    /\ pc[t] = "idle"
    /\ handle[t] # NoHandle
    /\ LkCloseReaders(t, CloseReaders(virtual_files[handle[t].name]))
    /\ UNCHANGED <<pfiles, virtual_dirs, freed, scope, written, editing_files_mutex, io_mutexes>>

\* Close, lines 362-363, under editing_files_mutex
LkCloseErase(t) ==
    /\ pc[t] = "close"
    /\ virtual_files' = CloseErase(virtual_files, frame[t].path)
    /\ handle' = [handle EXCEPT ![t] = NoHandle]
    /\ last' = CallByFile("Close", handle[t], 0, <<>>, 0, <<>>, "ok")
    /\ LkEnd(t, "ok")
    /\ UNCHANGED <<pfiles, virtual_dirs, freed, scope, written>>

\* caller t is inside a call and waits for no mutex
Running(t) ==
    pc[t] \in {"open", "create", "create_dirs", "write", "write_carry", "write_len", "close"}

\* a step of a caller that runs, told by what it changes: its position or its
\* locals. The first disjunct is one such step with every variable given, so
\* the action is enabled exactly when the caller runs.
LkAdvance(t) ==
    /\ Running(t)
    /\ \/ /\ pc' = [pc EXCEPT ![t] = "idle"]
          /\ UNCHANGED <<pfiles, virtual_files, virtual_dirs, freed, handle, scope, written,
                         last, lockvars>>
       \/ pc'[t] # pc[t]
       \/ frame'[t] # frame[t]

NextLocks ==
    \/ \E t \in Threads : \E name \in LockNames(t) : LkOpen(t, name)
    \/ \E t \in Threads : \E name \in LockNames(t) : LkCreate(t, name)
    \/ \E t \in {Opener}, len \in LockReadLens : LkRead(t, len)
    \/ \E t \in {Opener}, buff \in LockBuffers : LkWrite(t, buff)
    \/ \E t \in Threads : LkClose(t)
    \/ \E t \in Threads : LockEditing(t)
    \/ \E t \in Threads : LockIo(t)
    \/ \E t \in Threads : LkOpenLocked(t)
    \/ \E t \in Threads : LkCreateFind(t)
    \/ \E t \in Threads : LkCreateDir(t)
    \/ \E t \in Threads : LkCreateFile(t)
    \/ \E t \in Threads : LkWriteFirst(t)
    \/ \E t \in Threads : LkWriteNextPage(t)
    \/ \E t \in Threads : LkWritePad(t)
    \/ \E t \in Threads : LkWriteLen(t)
    \/ \E t \in Threads : LkCloseErase(t)
    \/ DoRestart

\* a caller that runs takes its next step (the scheduler is fair), and a caller
\* that waits for a mutex that is free again and again gets it
SpecLocks ==
    /\ InitLocks
    /\ [][NextLocks]_vars
    /\ \A t \in Threads : /\ WF_vars(LkAdvance(t))
                          /\ SF_vars(LockEditing(t))
                          /\ SF_vars(LockIo(t))

----------------------------------------------------------------------------
(* What the claims speak of *)

\* the bytes the Writes to the file name wrote, concatenated in call order
RECURSIVE FileData(_, _)
FileData(w, name) ==
    IF w = <<>> THEN <<>>
    ELSE (IF Head(w).name = name THEN Head(w).data ELSE <<>>) \o FileData(Tail(w), name)

\* the File a File* of the last call points to
Known(h) == h.name \in DOMAIN virtual_files /\ virtual_files[h.name].id = h.id
LastFile == virtual_files[last.file.name]
\* the last call was a Read, or a Write, with a buffer, through a File* in its mode
ReadThroughOpen ==
    last.op = "Read" /\ ~last.nullbuff /\ Known(last.file) /\ LastFile.status = "openR"
WriteThroughCreate ==
    last.op = "Write" /\ ~last.nullbuff /\ Known(last.file) /\ LastFile.status = "openW"

(* C1: round trip. Create(p); Write(h, D, |D|); Close(h); h' = Open(p);      *)
(* Read(h', out, |D|): Write and Read both return |D| and out equals D, for   *)
(* every D with |D| >= 1, also when D spans several pages.                    *)
C1_RoundTrip ==
    /\ (WriteThroughCreate /\ Len(written) <= 1) => last.n = Len(last.buff)
    /\ (/\ ReadThroughOpen
        /\ Len(written) = 1
        /\ written[1].name = last.file.name
        /\ last.len = Len(written[1].data))
       => (last.n = last.len /\ last.out = written[1].data)

\* the same for buffers that fit the first page of the file
C1_RoundTripFirstPage ==
    (/\ ReadThroughOpen
     /\ Len(written) = 1
     /\ written[1].name = last.file.name
     /\ last.len = Len(written[1].data)
     /\ last.len <= page_size - st_size - st_size)
    => (last.n = last.len /\ last.out = written[1].data)

(* C2: append-only concatenation. After Writes of n bytes in all to one file, *)
(* over one or several Create/Close sessions, Open and Read with len >= n     *)
(* returns n and the bytes read are the written buffers in call order.        *)
C2_Concatenation ==
    (ReadThroughOpen /\ last.len >= Len(FileData(written, last.file.name)))
    => (/\ last.n = Len(FileData(written, last.file.name))
        /\ last.out = FileData(written, last.file.name))

(* C3: writer exclusion. While a handle returned by Create(p) is not closed,  *)
(* every Open(p) returns null and leaves the entry of p in virtual_files with *)
(* status openW and readers = 0.                                              *)
C3_WriterExclusion ==
    [][\A t \in Threads :
         (/\ handle[t].by = "Create"
          /\ last'.op = "Open"
          /\ Normalize(last'.path) = handle[t].name)
         => (/\ last'.ret = NoPtr
             /\ handle[t].name \in DOMAIN virtual_files'
             /\ virtual_files'[handle[t].name].status = "openW"
             /\ virtual_files'[handle[t].name].readers = 0
             /\ virtual_files'[handle[t].name].id = handle[t].id)]_vars

C3_Witness ==
    /\ last.op = "Open"
    /\ last.ret = NoPtr
    /\ \E t \in Threads : handle[t].by = "Create" /\ handle[t].name = Normalize(last.path)

(* C4: Create rejection. Create(p) returns null whenever p has an entry in    *)
(* virtual_files, held by a writer or by readers, and then changes neither    *)
(* virtual_files nor virtual_dirs nor any physical file.                      *)
C4_CreateRejection ==
    [][(last'.op = "Create" /\ Normalize(last'.path) \in DOMAIN virtual_files)
       => (last'.ret = NoPtr /\ UNCHANGED <<virtual_files, virtual_dirs, pfiles>>)]_vars

C4_Witness ==
    /\ last.op = "Create"
    /\ last.ret = NoPtr
    /\ Normalize(last.path) \in DOMAIN virtual_files
    /\ virtual_files[Normalize(last.path)].status = "openR"
    /\ virtual_files[Normalize(last.path)].readers = 1

\* thread t has a File* that it got from Open or Create and has not begun to close
Holds(t) == handle[t] # NoHandle /\ pc[t] = "idle"

(* C5: reader/writer exclusion. In every reachable state of the concurrent    *)
(* callers, two File* of one path that are both not yet closed were both      *)
(* returned by Open: there is at most one from Create, and none from Create   *)
(* beside one from Open.                                                      *)
C5_ReaderWriterExclusion ==
    \A t, u \in Threads :
        (t # u /\ Holds(t) /\ Holds(u) /\ handle[t].name = handle[u].name)
        => (handle[t].by = "Open" /\ handle[u].by = "Open")

\* after Create, Write of one buffer and Close, with no Close of a reader so far:
\* both threads hold a File* from Open
BothOpened ==
    /\ scope = "readers"
    /\ Len(written) = 1
    /\ \A t \in Threads : Holds(t) /\ handle[t].by = "Open" /\ handle[t].name = written[1].name

(* C6: multi-reader. After Create(p), Write(D), Close, the Open(p) calls of    *)
(* two concurrent threads both return a File*, of the same entry, which is    *)
(* openR with readers = 2 once both have returned, and a Read of |D| bytes    *)
(* through either of them returns D.                                          *)
C6_MultiReader ==
    [][/\ (/\ scope = "readers"
           /\ last'.op = "Open"
           /\ Len(written) = 1
           /\ Normalize(last'.path) = written[1].name
           /\ \A t \in Threads : pc[t] = "idle" /\ handle[t].by # "Create")
          => last'.ret # NoPtr
       /\ BothOpened'
          => /\ \A t \in Threads : handle'[t].id = virtual_files'[written'[1].name].id
             /\ virtual_files'[written'[1].name].status = "openR"
             /\ virtual_files'[written'[1].name].readers = 2
             /\ (last'.op = "Read" /\ last'.len = Len(written'[1].data))
                => (last'.n = last'.len /\ last'.out = written'[1].data)]_vars

\* the same, with the Read left to buffers that fit the first page
C6_MultiReaderFirstPage ==
    [][/\ (/\ scope = "readers"
           /\ last'.op = "Open"
           /\ Len(written) = 1
           /\ Normalize(last'.path) = written[1].name
           /\ \A t \in Threads : pc[t] = "idle" /\ handle[t].by # "Create")
          => last'.ret # NoPtr
       /\ BothOpened'
          => /\ \A t \in Threads : handle'[t].id = virtual_files'[written'[1].name].id
             /\ virtual_files'[written'[1].name].status = "openR"
             /\ virtual_files'[written'[1].name].readers = 2
             /\ (/\ last'.op = "Read"
                 /\ last'.len = Len(written'[1].data)
                 /\ last'.len <= page_size - st_size - st_size)
                => (last'.n = last'.len /\ last'.out = written'[1].data)]_vars


(* C7: Close bookkeeping. Close of a handle whose entry has readers = k > 1   *)
(* only decrements readers; the Close that finds readers = 1, and the Close   *)
(* of a write handle (readers = 0), removes the entry; Close of null or of a  *)
(* path that is not in virtual_files changes nothing; no Close changes a      *)
(* physical file.                                                             *)
C7_CloseBookkeeping ==
    [][last'.op = "Close"
       => /\ pfiles' = pfiles
          /\ virtual_dirs' = virtual_dirs
          /\ LET name == last'.file.name
             IN  IF name \notin DOMAIN virtual_files
                 THEN virtual_files' = virtual_files
                 ELSE IF virtual_files[name].readers > 1
                 THEN virtual_files' =
                          [virtual_files EXCEPT ![name].readers = virtual_files[name].readers - 1]
                 ELSE virtual_files' =
                          [v \in DOMAIN virtual_files \ {name} |-> virtual_files[v]]]_vars

C7_Witness ==
    /\ last.op = "Close"
    /\ last.file.by = "Open"
    /\ Known(last.file)
    /\ LastFile.readers = 1

(* C8: Read length. Through a read handle of a file whose data_len is n, Read *)
(* with len >= 1 returns min(len, n), within the first page and across pages, *)
(* and it terminates.                                                         *)
C8_ReadLength ==
    (ReadThroughOpen /\ last.len >= 1)
    => (last.exc = "ok" /\ last.n = Min(last.len, LastFile.data_len))

C8_Witness ==
    /\ ReadThroughOpen
    /\ last.len > LastFile.data_len
    /\ LastFile.data_len > page_size - st_size - st_size
    /\ last.n = LastFile.data_len

\* the directories above path, the root left out
RECURSIVE Ancestors(_)
Ancestors(path) ==
    IF Len(path) <= 1 \/ parent_path(path) = vRoot \/ parent_path(path) = <<>>
    THEN {}
    ELSE {parent_path(path)} \cup Ancestors(parent_path(path))

\* the bytes of page n of a physical file, as far as the file reaches
PageBytes(f, n) == PRead(f, page_size, page_size * n + start)

\* the pages of the chain that starts at page first
RECURSIVE ChainPages(_, _, _)
ChainPages(f, first, seen) ==
    IF first \in seen \/ Len(PageBytes(f, first)) < page_size
    THEN seen
    ELSE IF GetNextPage(PageBytes(f, first)) = 0
    THEN seen \cup {first}
    ELSE ChainPages(f, GetNextPage(PageBytes(f, first)), seen \cup {first})

\* the page numbers of the records (type, name) that lie in the page buf, wherever
\* they start: this is how the look-ups of the program take a record to be there
RecordsIn(buf, type, name) ==
    LET rec == <<type>> \o Enc(Len(name)) \o name
    IN  {Dec(SubSeq(buf, i + Len(rec), i + Len(rec) + st_size - 1)) :
             i \in {j \in 1..(page_size - Len(rec) - st_size + 1) :
                        /\ Len(buf) = page_size
                        /\ SubSeq(buf, j, j + Len(rec) - 1) = rec}}

\* the page numbers of the records (type, name) in the chain that starts at first
RecordsInChain(f, first, type, name) ==
    UNION {RecordsIn(PageBytes(f, n), type, name) : n \in ChainPages(f, first, {})}

\* the first pages a directory has on the disk f, resolved from the root
RECURSIVE DirPagesOnDisk(_, _)
DirPagesOnDisk(f, d) ==
    IF d = vRoot THEN {0}
    ELSE IF Len(d) <= 1 \/ parent_path(d) = <<>> THEN {}
    ELSE UNION {RecordsInChain(f, q, dir, d) : q \in DirPagesOnDisk(f, parent_path(d))}

\* path has a file-type record on some disk, under directories that have theirs
FileOnDisk(pf, path) ==
    \E i \in DOMAIN pf :
        \E q \in DirPagesOnDisk(pf[i], parent_path(path)) :
            RecordsInChain(pf[i], q, file, path) # {}

\* the first page of the chain of a directory, by virtual_dirs
DirPage(vd, d) == IF d \in DOMAIN vd THEN vd[d].page ELSE 0

(* C9: Create makes the whole path. Whenever Create(p) returns a handle,      *)
(* every ancestor directory of p below the root is in virtual_dirs and has a  *)
(* dir record in its parent's chain, the ancestors that were missing have     *)
(* pages in the order of their depth (created shallowest first), p has a file *)
(* record in its parent's chain, all in one physical file, that of the        *)
(* ancestors known before the call; the entry is openW with readers = 0.      *)
C9_CreateMakesPath ==
    [][(last'.op = "Create" /\ last'.ret # NoPtr)
       => LET p == Normalize(last'.path)
              F == virtual_files'[p]
              f == pfiles'[F.p_file]
              old == (GetSize(pfiles[F.p_file]) - st_size) \div page_size
          IN  /\ p \in DOMAIN virtual_files'
              /\ F.id = last'.ret.id
              /\ F.status = "openW"
              /\ F.readers = 0
              /\ \A d \in Ancestors(p) :
                     /\ d \in DOMAIN virtual_dirs'
                     /\ virtual_dirs'[d].p_file = F.p_file
                     /\ d \in DOMAIN virtual_dirs => virtual_dirs[d].p_file = F.p_file
                     /\ virtual_dirs'[d].page \in
                            RecordsInChain(f, DirPage(virtual_dirs', parent_path(d)), dir, d)
                     /\ (virtual_dirs'[d].page >= old /\ parent_path(d) # vRoot
                            /\ DirPage(virtual_dirs', parent_path(d)) >= old)
                        => DirPage(virtual_dirs', parent_path(d)) < virtual_dirs'[d].page
              /\ F.page \in RecordsInChain(f, DirPage(virtual_dirs', parent_path(p)), file, p)
              /\ (F.page >= old /\ DirPage(virtual_dirs', parent_path(p)) >= old)
                 => DirPage(virtual_dirs', parent_path(p)) < F.page]_vars

\* Create("/a/b/f") made both /a and /a/b
C9_Witness ==
    /\ last.op = "Create"
    /\ last.ret # NoPtr
    /\ Len(Normalize(last.path)) = 6
    /\ Cardinality(Ancestors(Normalize(last.path))) = 2
    /\ \A d \in Ancestors(Normalize(last.path)) :
           d \in DOMAIN virtual_dirs /\ virtual_dirs[d].page >= 1
    /\ virtual_dirs[NameAB].page = virtual_dirs[parent_path(NameAB)].page + 1
    /\ Known(last.ret)
    /\ virtual_files[last.ret.name].page = virtual_dirs[NameAB].page + 1

(* C10: Open of a missing file. Open(p) for a path with no file record on any *)
(* disk (the file or an ancestor directory is missing, or p is a directory)   *)
(* returns null, adds no entry to virtual_files and leaves every physical     *)
(* file as it was.                                                            *)
C10_OpenMissing ==
    [][(last'.op = "Open" /\ ~FileOnDisk(pfiles, Normalize(last'.path)))
       => (/\ last'.ret = NoPtr
           /\ last'.exc = "ok"
           /\ virtual_files' = virtual_files
           /\ pfiles' = pfiles)]_vars

\* a file that is missing under a directory that is there, and a directory
C10_Witness ==
    /\ last.op = "Open"
    /\ last.ret = NoPtr
    /\ last.exc = "ok"
    /\ ~FileOnDisk(pfiles, Normalize(last.path))
    /\ parent_path(Normalize(last.path)) \in DOMAIN virtual_dirs
    /\ virtual_dirs[parent_path(Normalize(last.path))].page >= 1

\* the types of the records the program reads in the page buf from pos on, one
\* after the other as Init reads them
RECURSIVE TypesFrom(_, _)
TypesFrom(buf, pos) ==
    IF ReadFileInfo(buf, pos).exc # "ok" \/ ReadFileInfo(buf, pos).info.type = 0
    THEN {}
    ELSE {ReadFileInfo(buf, pos).info.type}
             \cup (IF ReadFileInfo(buf, pos).pos > 0
                      /\ ReadFileInfo(buf, pos).pos < page_size - st_size
                   THEN TypesFrom(buf, ReadFileInfo(buf, pos).pos)
                   ELSE {})

\* the types of the records of the chain of page 0, the root directory of f
RootTypes(f) == UNION {TypesFrom(PageBytes(f, n), 0) : n \in ChainPages(f, 0, {})}

\* the call was Open or Create of the root or of a name directly in it
RootCall(l) == l.op \in {"Open", "Create"} /\ InRoot(Normalize(l.path))

(* C11: root rejection. Open(name) and Create(name) return null when name,    *)
(* made absolute, is the root or has the root as its parent, and then change  *)
(* neither virtual_files nor virtual_dirs nor a physical file; the chain of   *)
(* page 0 never holds a file record (no step that changes a physical file,    *)
(* empty at first, leaves one there).                                         *)
C11_RootRejection ==
    [][/\ RootCall(last')
          => (/\ last'.ret = NoPtr
              /\ last'.exc = "ok"
              /\ UNCHANGED <<virtual_files, virtual_dirs, pfiles>>)
       /\ \A i \in PFiles :
              pfiles'[i] # pfiles[i] => file \notin RootTypes(pfiles'[i])]_vars

\* Create("f") came back null while the root chain holds directory records
C11_Witness ==
    /\ last.op = "Create"
    /\ last.path = NameF
    /\ last.ret = NoPtr
    /\ \E i \in PFiles : dir \in RootTypes(pfiles[i])

\* the File* of a call is null, its buffer is null, its length is 0, or the
\* File it points to is, before the call, in another status than st
Inert(l, st) ==
    \/ l.file = NoHandle
    \/ l.nullbuff
    \/ l.len = 0
    \/ virtual_files[l.file.name].status # st

(* C12: a call made in the wrong mode is inert. Read returns 0 and stores     *)
(* nothing when the handle is null, the buffer is null, len is 0 or the File  *)
(* is not open for reading (a handle from Create); Write returns 0 and        *)
(* changes no byte of a backing file, no size and no data length when the     *)
(* handle is null, the buffer is null, len is 0 or the File is not open for   *)
(* writing (a handle from Open).                                              *)
C12_WrongModeInert ==
    [][/\ (last'.op = "Read" /\ Inert(last', "openR"))
          => (/\ last'.n = 0
              /\ last'.out = <<>>
              /\ last'.exc = "ok"
              /\ UNCHANGED <<pfiles, virtual_files, virtual_dirs>>)
       /\ (last'.op = "Write" /\ Inert(last', "openW"))
          => (/\ last'.n = 0
              /\ last'.exc = "ok"
              /\ UNCHANGED <<pfiles, virtual_files, virtual_dirs>>)]_vars

\* a Write of 5 bytes through a File* from Open, on a file that holds data,
\* has returned 0
C12_Witness ==
    /\ last.op = "Write"
    /\ last.file.by = "Open"
    /\ last.len = 5
    /\ ~last.nullbuff
    /\ last.n = 0
    /\ LastFile.status = "openR"
    /\ LastFile.data_len > 0

\* the pages of a backing file after its header are whole
WholePages(f) == (GetSize(f) - st_size) % page_size = 0

(* C13: page alignment. In every state reached after construction and after   *)
(* any completed sequence of Create and Write calls, Writes that cross a page *)
(* boundary included, the size of each backing file minus W is an integer     *)
(* multiple of PAGE_SIZE.                                                     *)
C13_PageAlignment == \A i \in PFiles : WholePages(pfiles[i])

\* a Write that crossed a page boundary has returned and has left a backing
\* file that ends inside a page
C13_Witness ==
    /\ last.op = "Write"
    /\ last.n = 13
    /\ last.exc = "ok"
    /\ \E i \in PFiles : ~WholePages(pfiles[i])

\* the next_page word of page p of a physical file
NextPageOf(f, p) == GetNextPage(PageBytes(f, p))

(* C14: chain monotonicity. After any completed sequence of Create and Write  *)
(* calls, several Writes to a file that already spans more than one page      *)
(* included, every page p of every backing file has next_page(p) = 0 or       *)
(* next_page(p) > p, so every chain is finite and acyclic.                    *)
C14_ChainMonotone ==
    \A i \in PFiles : \A p \in 0..(Pages(pfiles[i]) - 1) :
        NextPageOf(pfiles[i], p) = 0 \/ NextPageOf(pfiles[i], p) > p

\* a second Write to a file of two pages has returned, and a page of its
\* backing file links to a page before it
C14_Witness ==
    /\ last.op = "Write"
    /\ last.n = 17
    /\ Len(written) = 2
    /\ \E i \in PFiles : \E p \in 1..(Pages(pfiles[i]) - 1) :
           NextPageOf(pfiles[i], p) \in 1..p

\* the file_header of a physical file
Header(f) == Dec(PRead(f, st_size, 0))

\* path has a file record in f, in the chain of a directory that has its own
\* records from the root chain on
FoundOnDisk(f, path) ==
    \E q \in DirPagesOnDisk(f, parent_path(path)) : RecordsInChain(f, q, file, path) # {}

\* the number of file records in the directory pages of f reachable from page 0
FilesOnDisk(f) == Cardinality({p \in Paths : FoundOnDisk(f, p)})

(* C15: file counter. After construction and after every completed Create,    *)
(* the file_header of each backing file equals the number of file records in  *)
(* the directory pages reachable from page 0 of that file; a Create that      *)
(* returns null or finds the file record of its path leaves every header as   *)
(* it was (directory records are not counted).                                *)
C15_FileCounter ==
    [][/\ (last'.op \in {"Create", "VFS"} /\ last'.exc = "ok")
          => \A i \in PFiles : Header(pfiles'[i]) = FilesOnDisk(pfiles'[i])
       /\ (/\ last'.op = "Create"
           /\ last'.exc = "ok"
           /\ \/ last'.ret = NoPtr
              \/ \E i \in PFiles : FoundOnDisk(pfiles[i], Normalize(last'.path)))
          => \A i \in PFiles : Header(pfiles'[i]) = Header(pfiles[i])]_vars

\* the second Create of a file has returned, the header of the backing file is
\* 2, and one file record lies in its directory pages
C15_Witness ==
    /\ last.op = "Create"
    /\ last.exc = "ok"
    /\ last.ret # NoPtr
    /\ Header(pfiles[1]) = 2
    /\ FilesOnDisk(pfiles[1]) = 1

\* the records the program reads in the page buf from pos on, one after the
\* other as Init reads them, each with the offset it starts at
RECURSIVE RecsFrom(_, _)
RecsFrom(buf, pos) ==
    LET r == ReadFileInfo(buf, pos)
    IN  IF r.exc # "ok" \/ r.info.type = 0
        THEN {}
        ELSE {[pos |-> pos, info |-> r.info]}
                 \cup (IF r.pos > 0 /\ r.pos < page_size - st_size
                       THEN RecsFrom(buf, r.pos)
                       ELSE {})

\* the records of the chain of f that starts at page first
ChainRecs(f, first) ==
    UNION {{[page |-> n, pos |-> r.pos, info |-> r.info] : r \in RecsFrom(PageBytes(f, n), 0)} :
              n \in ChainPages(f, first, {})}

\* the records of the directories of f: those of the chains in todo and of the
\* chains their directory records name
RECURSIVE TreeRecs(_, _, _)
TreeRecs(f, todo, done) ==
    IF todo = {} THEN {}
    ELSE LET n == SetMin(todo)
             recs == ChainRecs(f, n)
             more == {r.info.page : r \in {x \in recs : x.info.type = dir}}
         IN  recs \cup TreeRecs(f, (todo \cup more) \ (done \cup {n}), done \cup {n})

\* the metadata records of path, of either type, in all backing files
RecordsOf(pf, path) ==
    UNION {{[p_file |-> i, page |-> r.page, pos |-> r.pos, type |-> r.info.type] :
               r \in {x \in TreeRecs(pf[i], {0}, {}) : x.info.name = path}} : i \in PFiles}

\* the paths of the callers and the directories above them
AllPaths == Paths \cup UNION {Ancestors(p) : p \in Paths}

(* C16: path uniqueness. After any sequence of Create, Open and Close calls    *)
(* (no Write), with Create of a path whose file record exists, Create of a     *)
(* path below a path that was created as a file, and calls made after the VFS  *)
(* is constructed again, every virtual path has at most one metadata record,   *)
(* of either type, across all backing files.                                   *)
C16_PathUniqueness ==
    written = <<>> => \A p \in AllPaths : Cardinality(RecordsOf(pfiles, p)) <= 1

\* Create("/a/b/f") has returned a handle, no byte was ever written, and "/a/b"
\* has a file record and a dir record
C16_Witness ==
    /\ last.op = "Create"
    /\ last.path = NameABF
    /\ last.ret # NoPtr
    /\ written = <<>>
    /\ {r.type : r \in RecordsOf(pfiles, NameAB)} = {dir, file}

\* the data_length stored in the first page of the File F
StoredLength(pf, F) == GetFileLength(PageBytes(pf[F.p_file], F.page))

(* C17: stored length. After every completed Write through a write handle the *)
(* data_length stored in the first W bytes of the file's first page equals    *)
(* the cached data_len of the File and the sum of the return values of all    *)
(* Writes ever made to that file, over all its sessions; the Write returns    *)
(* len, and the stored data_length does not decrease.                         *)
C17_StoredLength ==
    [][(last'.op = "Write" /\ ~Inert(last', "openW") /\ last'.exc = "ok")
       => LET name == last'.file.name
          IN  /\ last'.n = last'.len
              /\ StoredLength(pfiles', virtual_files'[name]) = virtual_files'[name].data_len
              /\ virtual_files'[name].data_len = Len(FileData(written', name))
              /\ StoredLength(pfiles', virtual_files'[name])
                     >= StoredLength(pfiles, virtual_files[name])]_vars

\* the first Write to a file, of 5 bytes, has returned 5, and the File and its
\* first page hold a data_length above 5
C17_Witness ==
    /\ WriteThroughCreate
    /\ last.n = 5
    /\ Len(FileData(written, last.file.name)) = 5
    /\ LastFile.data_len > 5
    /\ StoredLength(pfiles, LastFile) = LastFile.data_len

\* the ancestors of path below the root that are in virtual_dirs
KnownAncestors(vd, path) == Ancestors(path) \cap DOMAIN vd

\* the deepest of them: the one with the longest path
Deepest(S) == CHOOSE d \in S : \A e \in S : Len(e) <= Len(d)

\* the physical files of minimal tracked size
Smallest(pf) == {i \in DOMAIN pf : \A j \in DOMAIN pf : GetSize(pf[i]) <= GetSize(pf[j])}

\* the physical files Create(path) may work in, from the state before the call
Placement(pf, vd, path) ==
    IF KnownAncestors(vd, path) = {} THEN Smallest(pf)
    ELSE {vd[Deepest(KnownAncestors(vd, path))].p_file}

(* C18: placement. When Create(p) has to make a new top-level directory (no   *)
(* ancestor of p below the root is in virtual_dirs), everything it writes     *)
(* goes to one backing file whose tracked size is minimal at the time of the  *)
(* call, and the new entries name that file; otherwise the backing file of    *)
(* the deepest known ancestor is used, whatever the sizes.                    *)
C18_Placement ==
    [][(last'.op = "Create" /\ ~InRoot(Normalize(last'.path)))
       => LET p == Normalize(last'.path)
              to == Placement(pfiles, virtual_dirs, p)
          IN  /\ \E i \in to : \A j \in PFiles \ {i} : pfiles'[j] = pfiles[j]
              /\ \A d \in DOMAIN virtual_dirs' \ DOMAIN virtual_dirs :
                     virtual_dirs'[d].p_file \in to
              /\ (last'.ret # NoPtr) => virtual_files'[p].p_file \in to]_vars

\* Create("/c/f") has made a top-level directory in the second backing file,
\* the smaller one, and Create("/a/b/f") then worked in the first, the larger
C18_Witness ==
    /\ last.op = "Create"
    /\ last.path = NameABF
    /\ last.ret # NoPtr
    /\ Normalize(NameCF) \in DOMAIN virtual_files
    /\ virtual_files[Normalize(NameCF)].p_file = 2
    /\ virtual_files[Normalize(NameABF)].p_file = 1
    /\ GetSize(pfiles[1]) > GetSize(pfiles[2])

\* what a first page holds besides its two words
Envelope == page_size - st_size - st_size

\* all the bytes ever written went to the file name, and they fit its first page
InEnvelope(w, name) ==
    /\ \A k \in 1..Len(w) : w[k].name = name
    /\ TotalWritten(w) <= Envelope

\* the payload of the first page of the File F, as far as n bytes
Payload(pf, F, n) == SubSeq(PageBytes(pf[F.p_file], F.page), st_size + 1, st_size + n)

\* the next_page words of all whole pages of the physical files
Links(pf) == [i \in PFiles |-> [p \in 0..(Pages(pf[i]) - 1) |-> NextPageOf(pf[i], p)]]

(* C19: first-page envelope. While the bytes written to one virtual file, in  *)
(* all its Create/Write/Close sessions, stay at most PAGE_SIZE - 2*W (the     *)
(* boundary included), every Write places its bytes directly after the bytes  *)
(* already stored in the file's first page, changes no backing file's size    *)
(* and no next_page link, and a following Open and Read returns the           *)
(* concatenation of all writes.                                               *)
C19_FirstPageEnvelope ==
    [][/\ (/\ last'.op = "Write"
           /\ ~Inert(last', "openW")
           /\ InEnvelope(written', last'.file.name))
          => (/\ last'.n = last'.len
              /\ written' = Append(written, [name |-> last'.file.name, data |-> last'.buff])
              /\ Payload(pfiles', virtual_files'[last'.file.name], TotalWritten(written'))
                     = FileData(written', last'.file.name)
              /\ \A i \in PFiles : GetSize(pfiles'[i]) = GetSize(pfiles[i])
              /\ Links(pfiles') = Links(pfiles))
       /\ (/\ last'.op = "Read"
           /\ ~Inert(last', "openR")
           /\ InEnvelope(written', last'.file.name)
           /\ last'.len >= TotalWritten(written'))
          => (/\ last'.exc = "ok"
              /\ last'.out = FileData(written', last'.file.name))]_vars

\* two Writes have put 5 and 7 bytes in a file, the boundary value in all, and
\* Open and Read gave the 12 bytes back
C19_Witness ==
    /\ ReadThroughOpen
    /\ Len(written) = 2
    /\ TotalWritten(written) = Envelope
    /\ InEnvelope(written, last.file.name)
    /\ last.out = FileData(written, last.file.name)
    /\ Len(last.out) = Envelope

\* thread t has a File* to the entry of path name that it has not begun to close
Unclosed(t, name) ==
    Holds(t) /\ handle[t].name = name /\ handle[t].id = virtual_files[name].id

(* C20: Close is atomic with respect to Open. In no interleaving of Close(h)  *)
(* by one thread with Open(p) by another on the same path does Open increment *)
(* readers and return a File* to an entry that the Close then removes: an     *)
(* entry leaves virtual_files only in a state where its readers counter is 0  *)
(* and no File* returned for it by Open or Create is still unclosed.          *)
C20_CloseAtomic ==
    [][\A name \in DOMAIN virtual_files :
         (name \notin DOMAIN virtual_files' /\ \A t \in Threads : pc'[t] # "dead")
         => (/\ virtual_files[name].readers = 0
             /\ \A t \in Threads : ~Unclosed(t, name))]_vars

\* a Close has removed the entry of a path while the other thread holds the
\* File* that its Open returned in the midst of that Close
C20_Witness ==
    /\ last.op = "Close"
    /\ last.file.name \notin DOMAIN virtual_files
    /\ \E t \in Threads :
           /\ Holds(t)
           /\ handle[t].by = "Open"
           /\ handle[t].name = last.file.name
           /\ handle[t].id = last.file.id

\* the entries of the physical file f: the records (type, path, first page) that
\* the look-ups of the program find for the paths of the callers
Entries(f) ==
    UNION {{[type |-> t, path |-> p, page |-> n] :
               n \in UNION {RecordsInChain(f, q, t, p) : q \in DirPagesOnDisk(f, parent_path(p))}} :
           <<t, p>> \in {dir, file} \X AllPaths}

\* the pages of an entry: its first page and those reachable through next_page
Owned(f, e) == ChainPages(f, e.page, {})

(* C21: page ownership. After any sequence of Create and Write calls, with a  *)
(* Write that crosses a page boundary followed by a Create in the same        *)
(* backing file, no page index belongs to two entries: the chain of the first *)
(* page of each metadata record is disjoint from the chain of every other     *)
(* file or directory and from the root chain that starts at page 0.           *)
C21_PageOwnership ==
    \A i \in PFiles :
        /\ \A e \in Entries(pfiles[i]) :
               Owned(pfiles[i], e) \cap ChainPages(pfiles[i], 0, {}) = {}
        /\ \A e, g \in Entries(pfiles[i]) :
               e # g => Owned(pfiles[i], e) \cap Owned(pfiles[i], g) = {}

\* after one Write, of 13 bytes to "/a/b/f", Create("/a/f") has returned a
\* handle, and the two files share a page
C21_Witness ==
    /\ last.op = "Create"
    /\ last.path = NameAF
    /\ last.ret # NoPtr
    /\ Len(written) = 1
    /\ written[1].name = NameABF
    /\ Len(written[1].data) = 13
    /\ \E e, g \in Entries(pfiles[1]) :
           /\ e.type = file /\ e.path = NameAF
           /\ g.type = file /\ g.path = NameABF
           /\ Owned(pfiles[1], e) \cap Owned(pfiles[1], g) # {}

\* the pages of the chain that starts at page first, in the order of the links;
\* a last page that the file holds in part is one of them
RECURSIVE ChainSeq(_, _, _)
ChainSeq(f, first, seen) ==
    IF first \in seen \/ page_size * first + start >= GetSize(f)
    THEN <<>>
    ELSE IF Len(PageBytes(f, first)) < page_size \/ NextPageOf(f, first) = 0
    THEN <<first>>
    ELSE <<first>> \o ChainSeq(f, NextPageOf(f, first), seen \cup {first})

\* the offsets in the physical file of the bytes from..to of page n
Offsets(n, from, to) == [k \in 1..(to - from + 1) |-> page_size * n + start + from + k - 1]

\* the offsets of the payload of a file whose chain is pages: behind the
\* data_length word in the first page, from the start in the others, up to the link
RECURSIVE PayloadOffsets(_, _)
PayloadOffsets(pages, from) ==
    IF pages = <<>> THEN <<>>
    ELSE Offsets(Head(pages), from, page_size - st_size - 1) \o PayloadOffsets(Tail(pages), 0)

\* the offsets a Write through F may change in f, which becomes g: the
\* data_length word, the links of the chain and the payload behind the bytes
\* written so far
MayChange(g, F) ==
    LET pages == ChainSeq(g, F.page, {})
        payload == PayloadOffsets(pages, st_size)
    IN  {page_size * F.page + start + k : k \in 0..(st_size - 1)}
            \cup UNION {{page_size * pages[j] + start + k : k \in (page_size - st_size)..(page_size - 1)} :
                           j \in 1..Len(pages)}
            \cup {payload[k] : k \in (F.data_len + 1)..Len(payload)}

\* the offsets at which g differs from f
Changed(f, g) == {o \in 0..(Len(g) - 1) : o >= Len(f) \/ g[o + 1] # f[o + 1]}

(* C22: write isolation. A Write through the write handle of file p, of any   *)
(* length and at any data_length of p, changes only bytes of p's own content  *)
(* pages behind the bytes written earlier, p's data_length word and the       *)
(* next_page links of p's chain, whose links so far stay as they are; it      *)
(* changes no metadata record, no file_header and no byte of another file.    *)
C22_WriteIsolation ==
    [][(last'.op = "Write" /\ ~Inert(last', "openW") /\ last'.exc = "ok")
       => LET F == virtual_files[last'.file.name]
              f == pfiles[F.p_file]
              g == pfiles'[F.p_file]
              old == ChainSeq(f, F.page, {})
          IN  /\ \A i \in PFiles \ {F.p_file} : pfiles'[i] = pfiles[i]
              /\ Header(g) = Header(f)
              /\ Changed(f, g) \subseteq MayChange(g, F)
              /\ SubSeq(ChainSeq(g, F.page, {}), 1, Len(old)) = old]_vars

\* the second Write to a file of two pages has returned 5 and has changed the
\* link of the first page and the byte the first Write left in the second
C22_Witness ==
    /\ WriteThroughCreate
    /\ Len(written) = 2
    /\ written[1].name = last.file.name
    /\ Len(written[1].data) = 13
    /\ last.n = 5
    /\ NextPageOf(pfiles[LastFile.p_file], LastFile.page) > Pages(pfiles[LastFile.p_file])
    /\ PageBytes(pfiles[LastFile.p_file], LastFile.page + 1)[1] # written[1].data[13]

\* no byte was ever written to the file name
NeverWritten(w, name) == FileData(w, name) = <<>>

(* C23: a new file is empty. For a path p with no file record yet, Create(p)  *)
(* leaves p's first page all zero and its data_len 0, whatever Creates and    *)
(* Writes on other files of the backing file came before; an Open of p, to    *)
(* which no byte was written, gives a handle with data_len 0, and a Read      *)
(* through it returns 0.                                                      *)
C23_NewFileEmpty ==
    [][/\ (/\ last'.op = "Create"
           /\ last'.ret # NoPtr
           /\ Normalize(last'.path) \notin DOMAIN virtual_files
           /\ ~FileOnDisk(pfiles, Normalize(last'.path)))
          => LET F == virtual_files'[Normalize(last'.path)]
             IN  /\ F.data_len = 0
                 /\ PageBytes(pfiles'[F.p_file], F.page) = Zeroes(page_size)
       /\ (/\ last'.op = "Open"
           /\ last'.ret # NoPtr
           /\ NeverWritten(written', Normalize(last'.path)))
          => virtual_files'[Normalize(last'.path)].data_len = 0
       /\ (/\ last'.op = "Read"
           /\ ~Inert(last', "openR")
           /\ NeverWritten(written', last'.file.name))
          => last'.n = 0]_vars

\* after a Write of 13 bytes to another file, Create, Close and Open of a new
\* path and a Read through the handle have returned, and the Read gave bytes
C23_Witness ==
    /\ ReadThroughOpen
    /\ Len(written) = 1
    /\ Len(written[1].data) = 13
    /\ NeverWritten(written, last.file.name)
    /\ last.n > 0
    /\ LastFile.data_len > 0

\* the pages of the directory chains of f: the chain of page 0 and the chains
\* of the pages its directory records name
DirChainPages(f) ==
    UNION {ChainPages(f, q, {}) :
              q \in {0} \cup {r.info.page : r \in {x \in TreeRecs(f, {0}, {}) : x.info.type = dir}}}

\* the first pages of the directory chains of f
DirChainHeads(f) ==
    {0} \cup {r.info.page : r \in {x \in TreeRecs(f, {0}, {}) : x.info.type = dir}}

\* the length of a metadata record of a name
RecLen(name) == 1 + st_size + Len(name) + st_size

\* the records of the directory pages of f lie whole before the link of their
\* page, every page is a whole page of f, and every page a chain was extended
\* by has a record at its offset 0
RecordsInPages(f) ==
    /\ \A r \in TreeRecs(f, {0}, {}) : r.pos + RecLen(r.info.name) <= page_size - st_size
    /\ \A n \in DirChainPages(f) :
           /\ n < Pages(f)
           /\ n \notin DirChainHeads(f) => \E r \in RecsFrom(PageBytes(f, n), 0) : r.pos = 0

\* the directories and files a walk from the root of f finds
DirsFound(f) == {d \in AllPaths : d # vRoot /\ DirPagesOnDisk(f, d) # {}}
FilesFound(f) == {p \in AllPaths : FoundOnDisk(f, p)}

(* C24: directory overflow. A Create whose record does not fit before the     *)
(* link of the tail page of the directory's chain appends one new directory   *)
(* page, links the old tail to it and writes the record at its offset 0: after *)
(* a Create that returns a handle, a backing file has grown by one page for   *)
(* each new record and one for each new page of a directory chain, no record  *)
(* straddles two pages or lies over a link, and every file and directory that *)
(* was found before, and the path just created with its directories, is found *)
(* by a walk of the chains.                                                   *)
C24_DirectoryOverflow ==
    [][(last'.op = "Create" /\ last'.ret # NoPtr /\ last'.exc = "ok")
       => /\ \A i \in PFiles :
                 /\ RecordsInPages(pfiles'[i])
                 /\ Pages(pfiles'[i]) - Pages(pfiles[i])
                        = Cardinality(TreeRecs(pfiles'[i], {0}, {}) \ TreeRecs(pfiles[i], {0}, {}))
                          + Cardinality(DirChainPages(pfiles'[i])
                                            \ (DirChainPages(pfiles[i]) \cup DirChainHeads(pfiles'[i])))
                 /\ DirsFound(pfiles[i]) \subseteq DirsFound(pfiles'[i])
                 /\ FilesFound(pfiles[i]) \subseteq FilesFound(pfiles'[i])
          /\ \E i \in PFiles :
                 /\ Normalize(last'.path) \in FilesFound(pfiles'[i])
                 /\ Ancestors(Normalize(last'.path)) \ {vRoot} \subseteq DirsFound(pfiles'[i])]_vars

\* after a Write of 13 bytes, a Create whose records needed new directory pages
\* has returned a handle, and a page it linked to a directory chain has no
\* record at its offset 0 or is no whole page of the backing file
C24_Witness ==
    /\ last.op = "Create"
    /\ last.exc = "ok"
    /\ last.ret # NoPtr
    /\ Normalize(last.path) = NameABF
    /\ Len(written) = 1
    /\ Len(written[1].data) = 13
    /\ \E i \in PFiles : ~RecordsInPages(pfiles[i])

\* the dir records of the chain of page 0 of the physical files whose
\* file_header is not zero, as entries of virtual_dirs
RootDirRecords(pf) ==
    UNION {{<<d, [p_file |-> i, page |-> n]>> :
               n \in (IF Header(pf[i]) = 0 THEN {} ELSE RecordsInChain(pf[i], 0, dir, d))} :
           <<i, d>> \in PFiles \X (AllPaths \ {vRoot})}

\* Open(name) on the maps as they are, and then Read of length bytes through
\* the File* it returned
OpenThenRead(name, length) ==
    LET o == Open(pfiles, virtual_files, virtual_dirs, name, 1)
    IN  IF o.ret = NoPtr \/ o.exc # "ok"
        THEN [opened |-> FALSE, data_len |-> 0, out |-> <<>>]
        ELSE [opened |-> TRUE,
              data_len |-> o.vf[Normalize(name)].data_len,
              out |-> Read(pfiles, o.vf[Normalize(name)], length).out]

(* C25: persistence over re-construction. After Create(p), Write(D) with      *)
(* |D| <= PAGE_SIZE - 2*W and Close, a VFS constructed over the same backing  *)
(* files has an empty virtual_files, has in virtual_dirs exactly the dir      *)
(* records of the page-0 chain of every backing file whose file_header is not *)
(* zero, and Open(p) followed by a Read of at least |D| bytes returns D, for  *)
(* p at any directory depth.                                                  *)
C25_Persistence ==
    (last.op = "VFS" /\ last.exc = "ok")
    => /\ virtual_files = EmptyMap
       /\ {<<d, virtual_dirs[d]>> : d \in DOMAIN virtual_dirs} = RootDirRecords(pfiles)
       /\ \A name \in Names :
              (written # <<>> /\ InEnvelope(written, Normalize(name)))
              => \A length \in {n \in ReadLens : n >= TotalWritten(written)} :
                     /\ OpenThenRead(name, length).opened
                     /\ OpenThenRead(name, length).data_len = TotalWritten(written)
                     /\ OpenThenRead(name, length).out = FileData(written, Normalize(name))

\* a VFS has been constructed over backing files in which a file two
\* directories deep holds 12 bytes from two Writes, its directory is not in
\* virtual_dirs, and Open and then Read return the bytes
C25_Witness ==
    /\ last.op = "VFS"
    /\ last.exc = "ok"
    /\ Len(written) = 2
    /\ InEnvelope(written, NameABF)
    /\ TotalWritten(written) = Envelope
    /\ parent_path(NameABF) \notin DOMAIN virtual_dirs
    /\ DOMAIN virtual_dirs # {}
    /\ OpenThenRead(NameABF, 13).out = FileData(written, NameABF)

----------------------------------------------------------------------------
\* caller t takes a step
StepOf(t) == pc'[t] # pc[t] \/ frame'[t] # frame[t]

\* caller t is between lines 285 and 307 of Create or inside WriteToFile, and
\* has the mutex of physical file i
Appending(t, i) ==
    /\ pc[t] \in {"create_dirs", "write", "write_carry"}
    /\ frame[t].p_file = i
    /\ io_mutexes[i] = t

\* the step changes the size of physical file i only as a step of the caller
\* that has the mutex of i
AppendsUnderMutex(i) ==
    GetSize(pfiles'[i]) # GetSize(pfiles[i]) => \E t \in Threads : Appending(t, i) /\ StepOf(t)

\* the page indexes the step obtains in physical file i: the index a round of
\* WriteToFile links the page of the file to, the page of the directory and
\* the page of the file that CreateFile puts into an index
NewPageIndexes(i) ==
    {NextPageOf(pfiles'[i], frame[t].page) :
        t \in {u \in Threads : /\ Appending(u, i)
                               /\ pc[u] = "write_carry"
                               /\ pc'[u] = "write_carry"
                               /\ frame'[u].n # frame[u].n}}
    \cup {virtual_dirs'[d].page :
             d \in {x \in DOMAIN virtual_dirs' \ DOMAIN virtual_dirs :
                       \E u \in Threads : /\ Appending(u, i)
                                          /\ pc[u] = "create_dirs"
                                          /\ frame[u].dirs # <<>>
                                          /\ x = Head(frame[u].dirs)}}
    \cup {virtual_files'[n].page :
             n \in {x \in DOMAIN virtual_files' \ DOMAIN virtual_files :
                       \E u \in Threads : /\ Appending(u, i)
                                          /\ pc[u] = "create_dirs"
                                          /\ frame[u].dirs = <<>>
                                          /\ ~frame[u].found
                                          /\ x = frame[u].path}}

\* the page indexes of physical file i that are in use: page 0, the pages of
\* the entries of the two indexes, and the pages the open files link to
PagesGiven(i) ==
    {0} \cup {virtual_dirs[d].page : d \in {x \in DOMAIN virtual_dirs : virtual_dirs[x].p_file = i}}
        \cup {virtual_files[n].page :
                 n \in {x \in DOMAIN virtual_files : virtual_files[x].p_file = i}}
        \cup {NextPageOf(pfiles[i], virtual_files[n].page) :
                 n \in {x \in DOMAIN virtual_files : virtual_files[x].p_file = i}}

(* C26: page appends are mutually exclusive per backing file. A step changes  *)
(* the size of a backing file only as a step of the caller that holds the     *)
(* file's io mutex, in Create between lines 285 and 307 or in WriteToFile, so *)
(* no other caller reads the size, computes a page index or appends in        *)
(* between; and no step obtains as a new page index one that is already in    *)
(* use in that backing file.                                                  *)
C26_AppendExclusion ==
    [][\A i \in PFiles : AppendsUnderMutex(i) /\ NewPageIndexes(i) \cap PagesGiven(i) = {}]_vars

\* Create has returned a handle to caller 2 after a carried Write of caller 1
\* to the same physical file, and a directory has the page the file of caller 1
\* links to
C26_Witness ==
    /\ last.op = "Create"
    /\ last.path = NameABF
    /\ last.ret # NoPtr
    /\ Len(written) = 1
    /\ Len(written[1].data) = 13
    /\ NameAF \in DOMAIN virtual_files
    /\ \E d \in DOMAIN virtual_dirs :
           /\ virtual_dirs[d].p_file = virtual_files[NameAF].p_file
           /\ virtual_dirs[d].page =
                  NextPageOf(pfiles[virtual_files[NameAF].p_file], virtual_files[NameAF].page)

----------------------------------------------------------------------------
\* the mutexes of the program in the order the callers take them:
\* editing_files_mutex, the mutex of a physical file in io_mutexes, the mutex of
\* an index (v_files_mutex, v_dirs_mutex), the io_mutex of a PhysicalFile
MutexRank(m) ==
    IF m = "editing_files_mutex" THEN 1
    ELSE IF m = "io_mutexes" THEN 2
    ELSE IF m \in {"v_files_mutex", "v_dirs_mutex"} THEN 3 ELSE 4

\* the mutexes caller t holds from one step to the next
HeldMutexes(t) ==
    {m \in {"editing_files_mutex"} : editing_files_mutex = t}
        \cup {m \in {"io_mutexes"} : \E i \in PFiles : io_mutexes[i] = t}

\* the mutex caller t waits for
Wanted(t) ==
    IF pc[t] \in {"open_lock", "create_lock", "close_lock"} THEN {"editing_files_mutex"}
    ELSE IF pc[t] \in {"create_io", "write_lock"} THEN {"io_mutexes"} ELSE {}

\* the mutexes a caller takes and releases inside its step at position p, each
\* in a call that takes no other: InsertDir and InsertFile (458, 469) under
\* OpenExistingDirectories, OpenExistingFile and CreateFile, and Read, Write and
\* GetSize of PhysicalFile (58, 84); WriteToFile under CreateFile takes the
\* mutex of the physical file again (550), which its caller holds (285)
Takes(p) ==
    IF p \in {"open", "create"} THEN {"v_dirs_mutex", "v_files_mutex", "io_mutex"}
    ELSE IF p = "create_dirs" THEN {"v_dirs_mutex", "v_files_mutex", "io_mutex"}
    ELSE IF p \in {"write", "write_carry", "write_len"} THEN {"io_mutex"} ELSE {}

\* every mutex a caller waits for or takes comes after all it holds
LockOrder ==
    \A t \in Threads : \A m \in Wanted(t) \cup Takes(pc[t]) : \A h \in HeldMutexes(t) :
        MutexRank(h) < MutexRank(m)

\* caller t waits for a mutex that caller u holds
WaitsFor(t, u) ==
    /\ t # u
    /\ \/ pc[t] \in {"open_lock", "create_lock", "close_lock"} /\ editing_files_mutex = u
       \/ pc[t] \in {"create_io", "write_lock"} /\ io_mutexes[frame[t].p_file] = u

\* no two callers wait for each other
NoWaitCycle == \A t, u \in Threads : ~(WaitsFor(t, u) /\ WaitsFor(u, t))

\* caller t is inside a call of a process that lives
InCall(t) == pc[t] \notin {"idle", "dead"}

====
